---- MODULE Spec2Model ----
(***************************************************************************)
(* A model of the maestro workflow compiler: the schema-compatibility      *)
(* validator (src/src/validation.ts), the handler registry                 *)
(* (registry.ts), the template resolver (templating.ts) and the compile    *)
(* pipeline (src/src/compiler.ts).                                         *)
(*                                                                         *)
(* Conventions.  A JavaScript string built by interpolation is built here  *)
(* with \o.  An optional field that is absent holds Absent.  A handler id  *)
(* is kept as the sequence of its dot-separated parts (what split(".")     *)
(* returns); Dotted joins the parts again.  Property lookup is modelled    *)
(* over own properties of plain data.                                      *)
(***************************************************************************)
EXTENDS Integers, Sequences, FiniteSets, TLC

VARIABLES
    spec,        \* the WorkflowSpec handed to validateWorkflowSchemas / compileWorkflow
    registry,    \* the HandlerRegistry: bucket name -> set of entry names
    pc,          \* position of the running call
    call,        \* which entry point is running
    issues,      \* the SchemaIssue[] validateWorkflowSchemas returned
    calls,       \* runtime graph primitives called so far by the compile call
    thrown,      \* message of the Error thrown, or Absent
    warnings,    \* the warnings compileWorkflow returned
    tmplValue,   \* the value handed to resolveTemplates
    tmplContext, \* the TemplateContext handed to resolveTemplates
    tmplResult,  \* what resolveTemplates returned or threw
    unit,        \* the wrapper or compiled unit that is invoked
    invocation,  \* the context and arguments of the invocation
    effects,     \* the calls the invocation made on agent, tool, handler, runtime
    outcome,     \* what the invocation returned or threw
    second       \* a second compileWorkflow call under way: its locals

\* the variables of an invocation at run time, and of a second compile call
runVars == <<unit, invocation, effects, outcome, second>>

\* no invocation is under way
NotRunning ==
    /\ unit = <<>>
    /\ invocation = <<>>
    /\ effects = <<>>
    /\ outcome = <<>>
    /\ second = <<>>

vars == <<spec, registry, pc, call, issues, calls, thrown, warnings,
          tmplValue, tmplContext, tmplResult, runVars>>

Absent == "<absent>"

----------------------------------------------------------------------------
(* Sequence helpers *)

RECURSIVE Concat(_)
Concat(ss) == IF ss = <<>> THEN <<>> ELSE Head(ss) \o Concat(Tail(ss))

RECURSIVE Dotted(_)
Dotted(parts) ==
    IF parts = <<>> THEN ""
    ELSE IF Len(parts) = 1 THEN parts[1]
    ELSE parts[1] \o "." \o Dotted(Tail(parts))

SelectIdx(s, P(_)) == {i \in 1..Len(s) : P(s[i])}

StartsWith(s, prefix) ==
    Len(s) >= Len(prefix) /\ SubSeq(s, 1, Len(prefix)) = prefix

Range(s) == {s[i] : i \in 1..Len(s)}

----------------------------------------------------------------------------
(* JSON schemas.  kind "undef" is an absent schema, "list" a schema given   *)
(* as an array, "obj" a schema object.  ty is the `type` keyword: form      *)
(* "none" (absent or not a string / list of strings), "str" (one string,   *)
(* names = <<t>>) or "arr" (a list of strings).                             *)

NoSchema == [kind |-> "undef"]

ListSchema == [kind |-> "list"]

NoType == [form |-> "none", names |-> <<>>]

TStr(t) == [form |-> "str", names |-> <<t>>]

TArr(ts) == [form |-> "arr", names |-> ts]

NoEnum == [has |-> FALSE, vals |-> {}]

NoProps == [has |-> FALSE, keys |-> {}]

Schema(ty, nullUnion, enum, cons, required, props, items) ==
    [kind |-> "obj", ty |-> ty, nullUnion |-> nullUnion, enum |-> enum,
     cons |-> cons, required |-> required, props |-> props, items |-> items]

Plain(ty) == Schema(ty, FALSE, NoEnum, {}, <<>>, NoProps, NoSchema)

getSchemaType(schema) ==
    IF schema.kind # "obj" THEN NoType ELSE schema.ty

isNullable(schema) ==
    LET type == getSchemaType(schema) IN
    IF type.form = "arr" THEN "null" \in Range(type.names)
    ELSE IF type = TStr("null") THEN TRUE
    ELSE schema.kind = "obj" /\ schema.nullUnion

normalizeSchema(schema) == schema

getScalarConstraints(schema) ==
    IF schema.kind # "obj" THEN {}
    ELSE schema.cons \cup (IF schema.enum.has THEN {"enum"} ELSE {})

isEnumCompatible(outputSchema, inputSchema) ==
    IF outputSchema.kind # "obj" \/ inputSchema.kind # "obj" THEN TRUE
    ELSE IF ~outputSchema.enum.has \/ ~inputSchema.enum.has THEN TRUE
    ELSE inputSchema.enum.vals \subseteq outputSchema.enum.vals

\* faulty variant: no pair of types is a mismatch
typeIncludesAnything(outputType, inputType) == TRUE

typeIncludes(outputType, inputType) ==
    IF inputType.form = "none" \/ outputType.form = "none" THEN TRUE
    ELSE Range(inputType.names) \subseteq Range(outputType.names)

getObjectProps(schema) ==
    IF schema.kind # "obj" THEN NoProps
    ELSE IF schema.ty # TStr("object") THEN NoProps
    ELSE schema.props

\* faulty variant: only the first required key is looked at
getRequiredFirstOnly(schema) ==
    IF schema.kind # "obj" \/ schema.required = <<>> THEN <<>>
    ELSE <<schema.required[1]>>

getRequired(schema) ==
    IF schema.kind # "obj" THEN <<>> ELSE schema.required

getArrayItems(schema) ==
    IF schema.kind # "obj" THEN NoSchema
    ELSE IF schema.ty # TStr("array") THEN NoSchema
    ELSE schema.items

\* faulty variant: a type list that contains "array" is not taken for an array
isArraySchemaStringOnly(schema) ==
    IF schema.kind # "obj" THEN FALSE ELSE schema.ty = TStr("array")

isArraySchema(schema) ==
    IF schema.kind # "obj" THEN FALSE
    ELSE IF schema.ty = TStr("array") THEN TRUE
    ELSE IF schema.ty.form = "arr" THEN "array" \in Range(schema.ty.names)
    ELSE FALSE

----------------------------------------------------------------------------
(* Schema issues and their messages *)

Issue(path, severity, message) ==
    [path |-> path, severity |-> severity, message |-> message]

Quoted(s) == "\"" \o s \o "\""

RECURSIVE CommaQuoted(_)
CommaQuoted(names) ==
    IF names = <<>> THEN ""
    ELSE IF Len(names) = 1 THEN Quoted(names[1])
    ELSE Quoted(names[1]) \o "," \o CommaQuoted(Tail(names))

\* JSON.stringify of a SchemaType
JsonType(type) ==
    IF type.form = "none" THEN "undefined"
    ELSE IF type.form = "str" THEN Quoted(type.names[1])
    ELSE "[" \o CommaQuoted(type.names) \o "]"

MsgTypeMismatch(outputType, inputType) ==
    "Schema type mismatch. Output type " \o JsonType(outputType)
        \o " does not satisfy input type " \o JsonType(inputType) \o "."

MsgNullable == "Input allows null but output does not appear to be nullable."

MsgEnum == "Output enum does not cover all values required by input enum."

MsgConstraints == "Input schema has constraints that are not present in output schema."

MsgMissingKey(key) ==
    "Output schema missing required key '" \o key \o "' expected by next step input."

MsgForeach == "Foreach expects previous output to be an array schema."

MsgUnknownStep(stepId) == "Mapping references unknown step '" \o stepId \o "'."

MsgMappingObject == "Mapping entry must be an object."

MsgMappingFrom == "Mapping 'from' must be one of 'step', 'init', or 'requestContext'."

MsgMappingPath == "Mapping path should be a string."

MsgDuplicate(id, existing) ==
    "Duplicate step id '" \o id \o "' previously defined at " \o existing \o "."

\* faulty variant: the mode is ignored
ModeSeverityAlwaysWarning(mode) == "warning"

ModeSeverity(mode) == IF mode = "strict" THEN "error" ELSE "warning"

----------------------------------------------------------------------------
(* validateSchemaCompatibility: the rule set for one producer/consumer pair *)

RECURSIVE validateSchemaCompatibility(_, _, _, _)
validateSchemaCompatibility(outputSchema, inputSchema, path, mode) ==
    IF outputSchema.kind = "undef" \/ inputSchema.kind = "undef" THEN <<>>
    ELSE
    LET normalizedOutput == normalizeSchema(outputSchema)
        normalizedInput == normalizeSchema(inputSchema)
        outputType == getSchemaType(normalizedOutput)
        inputType == getSchemaType(normalizedInput)
        nullIssue ==
            IF isNullable(normalizedInput) /\ ~isNullable(normalizedOutput)
            THEN <<Issue(path, "warning", MsgNullable)>> ELSE <<>>
        enumIssue ==
            IF ~isEnumCompatible(normalizedOutput, normalizedInput)
            THEN <<Issue(path, ModeSeverity(mode), MsgEnum)>> ELSE <<>>
        consIssue ==
            IF getScalarConstraints(normalizedInput) # {}
               /\ getScalarConstraints(normalizedOutput) = {}
            THEN <<Issue(path, "warning", MsgConstraints)>> ELSE <<>>
        required == getRequired(normalizedInput)
        outputProps == getObjectProps(normalizedOutput)
        keyIssues ==
            IF inputType = TStr("object") /\ outputType = TStr("object")
            THEN Concat([k \in 1..Len(required) |->
                    IF required[k] \notin outputProps.keys
                    THEN <<Issue(path, "warning", MsgMissingKey(required[k]))>>
                    ELSE <<>>])
            ELSE <<>>
        outputItems == getArrayItems(normalizedOutput)
        inputItems == getArrayItems(normalizedInput)
        itemIssues ==
            IF inputType = TStr("array") /\ outputType = TStr("array")
               /\ outputItems.kind # "undef" /\ inputItems.kind # "undef"
            THEN validateSchemaCompatibility(outputItems, inputItems,
                                             path \o ".items", mode)
            ELSE <<>>
    IN  IF ~typeIncludes(outputType, inputType)
        THEN <<Issue(path, ModeSeverity(mode),
                     MsgTypeMismatch(outputType, inputType))>>
        ELSE nullIssue \o enumIssue \o consIssue \o keyIssues \o itemIssues

----------------------------------------------------------------------------
(* Mapping entries (MappingSource).  isObject: the entry is a non-null      *)
(* object; hasValue: it carries `value`; from, stepId: the fields, or       *)
(* Absent; pathIsString: typeof path === "string".                          *)

Mapping(key, isObject, hasValue, from, stepId, pathIsString) ==
    [key |-> key, isObject |-> isObject, hasValue |-> hasValue, from |-> from,
     stepId |-> stepId, pathIsString |-> pathIsString]

fromStep(key, stepId) == Mapping(key, TRUE, FALSE, "step", stepId, TRUE)

fromInit(key) == Mapping(key, TRUE, FALSE, "init", Absent, TRUE)

literal(key) == Mapping(key, TRUE, TRUE, Absent, Absent, FALSE)

\* String(stepId) of the message
StepIdText(stepId) == IF stepId = Absent THEN "undefined" ELSE stepId

validateMappingEntry(mapping, availableSteps, path) ==
    LET here == path \o "." \o mapping.key
        stepIssue ==
            IF mapping.from = "step"
               /\ (mapping.stepId = Absent \/ mapping.stepId \notin availableSteps)
            THEN <<Issue(here, "error", MsgUnknownStep(StepIdText(mapping.stepId)))>>
            ELSE <<>>
        fromIssue ==
            IF mapping.from \notin {"step", "init", "requestContext"}
            THEN <<Issue(here, "error", MsgMappingFrom)>> ELSE <<>>
        pathIssue ==
            IF mapping.from # "step" /\ ~mapping.pathIsString
            THEN <<Issue(here, "warning", MsgMappingPath)>> ELSE <<>>
    IN  IF ~mapping.isObject THEN <<Issue(here, "error", MsgMappingObject)>>
        ELSE IF mapping.hasValue THEN <<>>
        ELSE stepIssue \o fromIssue \o pathIssue

validateMappings(mappings, availableSteps, path) ==
    Concat([m \in 1..Len(mappings) |->
                validateMappingEntry(mappings[m], availableSteps, path)])

----------------------------------------------------------------------------
(* Step nodes (StepSpec).  One record shape for every variant:              *)
(*   id            step id, Absent where the variant has none               *)
(*   name          the target field: action / agent / tool / network /      *)
(*                 scorer / handler / workflowId                            *)
(*   server        the mcp server                                           *)
(*   steps         parallel members, or the one body of foreach / dowhile / *)
(*                 dountil                                                  *)
(*   branches      the arms of a branch: [handler, steps]                   *)
(*   condition     the handler id of a dowhile / dountil condition          *)
(*   mappings      the entries of map.mappings or workflow.inputMapping     *)
(*   hasMapping    workflow.inputMapping is present                         *)
(*   concurrency   foreach.concurrency: <<>> when absent, <<n>> when n      *)

Step(type, id, name, server, inputSchema, outputSchema, steps, branches, condition, mappings, hasMapping) ==
    [type |-> type, id |-> id, name |-> name, server |-> server,
     inputSchema |-> inputSchema, outputSchema |-> outputSchema,
     steps |-> steps, branches |-> branches, condition |-> condition,
     mappings |-> mappings, hasMapping |-> hasMapping, concurrency |-> <<>>]

\* the variants built on StepBase: id, inputSchema and outputSchema are required
LeafTypes ==
    {"step", "agent", "tool", "mcp", "network", "tts", "listen",
     "documentChunk", "documentMetadata", "documentTransform", "graphRag",
     "graphRagQuery", "evals", "memory", "vectorStore", "rag", "http",
     "logger", "requestContext"}

Leaf(type, id, name, server, inputSchema, outputSchema) ==
    Step(type, id, name, server, inputSchema, outputSchema, <<>>, <<>>, <<>>,
         <<>>, FALSE)

GenericStep(id, action, inputSchema, outputSchema) ==
    Leaf("step", id, action, Absent, inputSchema, outputSchema)

Control(type, id, steps, branches, condition, mappings, hasMapping) ==
    Step(type, id, Absent, Absent, NoSchema, NoSchema, steps, branches,
         condition, mappings, hasMapping)

ForeachStep(body) == Control("foreach", Absent, <<body>>, <<>>, <<>>, <<>>, FALSE)

\* a foreach that declares its concurrency
ForeachStepOf(body, concurrency) ==
    [ForeachStep(body) EXCEPT !.concurrency = <<concurrency>>]

DoWhileStep(body, handler) ==
    Control("dowhile", Absent, <<body>>, <<>>, handler, <<>>, FALSE)

DoUntilStep(body, handler) ==
    Control("dountil", Absent, <<body>>, <<>>, handler, <<>>, FALSE)

ParallelStep(members) ==
    Control("parallel", Absent, members, <<>>, <<>>, <<>>, FALSE)

Arm(handler, steps) == [handler |-> handler, steps |-> steps]

BranchStep(arms) == Control("branch", Absent, <<>>, arms, <<>>, <<>>, FALSE)

MapStep(id, mappings) == Control("map", id, <<>>, <<>>, <<>>, mappings, TRUE)

SleepStep(id) == Control("sleep", id, <<>>, <<>>, <<>>, <<>>, FALSE)

WorkflowStep(workflowId, mappings, hasMapping) ==
    Step("workflow", Absent, workflowId, Absent, NoSchema, NoSchema, <<>>,
         <<>>, <<>>, mappings, hasMapping)

\* "id" in step && typeof step.id === "string"
HasId(step) == step.id # Absent

schemaFromStep(step) == step.outputSchema

inputSchemaFromStep(step) == step.inputSchema

\* faulty variant: a foreach hands on the output of its body as it is
computeForeachOutputOfBody(step) ==
    IF step.type # "foreach" THEN schemaFromStep(step)
    ELSE schemaFromStep(step.steps[1])

computeForeachOutput(step) ==
    IF step.type # "foreach" THEN schemaFromStep(step)
    ELSE LET itemOutput == schemaFromStep(step.steps[1]) IN
         IF itemOutput.kind = "undef" THEN NoSchema
         ELSE Schema(TStr("array"), FALSE, NoEnum, {}, <<>>, NoProps, itemOutput)

OpaqueObject == Plain(TStr("object"))

----------------------------------------------------------------------------
(* validateSequence: the walk that carries the previous output shape *)

availableStepsOf(steps) == {steps[i].id : i \in SelectIdx(steps, HasId)}

RECURSIVE validateSequence(_, _, _, _)
RECURSIVE validateSequenceFrom(_, _, _, _, _, _)

validateSequence(steps, path, mode, inputSchema) ==
    validateSequenceFrom(steps, 1, path, mode, inputSchema,
                         availableStepsOf(steps))

\* the forEach callback at index - 1 and the iterations after it
validateSequenceFrom(steps, index, path, mode, prevOutput, availableSteps) ==
    IF index > Len(steps) THEN <<>>
    ELSE
    LET step == steps[index]
        at == ToString(index - 1)
        rest(nextOutput) ==
            validateSequenceFrom(steps, index + 1, path, mode, nextOutput,
                                 availableSteps)
    IN
    CASE step.type = "branch" ->
           Concat([b \in 1..Len(step.branches) |->
              LET branch == step.branches[b]
                  branchInput ==
                      IF Len(branch.steps) > 0
                      THEN inputSchemaFromStep(branch.steps[1]) ELSE NoSchema
                  branchPath == path \o ".branch." \o at \o ".branches."
                                     \o ToString(b - 1)
              IN  validateSchemaCompatibility(prevOutput, branchInput,
                                              branchPath, mode)
                  \o validateSequence(branch.steps, branchPath \o ".steps",
                                      mode, prevOutput)])
           \o rest(NoSchema)
      [] step.type = "parallel" ->
           Concat([m \in 1..Len(step.steps) |->
              validateSchemaCompatibility(
                  prevOutput, inputSchemaFromStep(step.steps[m]),
                  path \o ".parallel." \o at \o "." \o ToString(m - 1), mode)])
           \o rest(NoSchema)
      [] step.type = "map" ->
           validateMappings(step.mappings, availableSteps,
                            path \o ".map." \o at)
           \o rest(OpaqueObject)
      [] step.type = "workflow" ->
           (IF step.hasMapping
            THEN validateMappings(step.mappings, availableSteps,
                                  path \o ".workflow." \o at)
            ELSE <<>>)
           \o rest(OpaqueObject)
      [] step.type \in {"sleep", "sleepUntil"} -> rest(prevOutput)
      [] OTHER ->
           (IF step.type = "foreach" /\ prevOutput.kind # "undef"
               /\ ~isArraySchema(prevOutput)
            THEN <<Issue(path \o ".steps." \o at, ModeSeverity(mode), MsgForeach)>>
            ELSE <<>>)
           \o validateSchemaCompatibility(prevOutput, inputSchemaFromStep(step),
                                          path \o ".steps." \o at, mode)
           \o rest(IF step.type = "foreach" THEN computeForeachOutput(step)
                   ELSE schemaFromStep(step))

----------------------------------------------------------------------------
(* visitSteps: the pre-order walk, as the list of the visitor's calls *)

Visit(step, path) == [step |-> step, path |-> path]

\* faulty variant: the walk does not descend into branch arms
RECURSIVE visitStepsArmLocal(_, _)
visitStepsArmLocal(steps, basePath) ==
    Concat([i \in 1..Len(steps) |->
        LET step == steps[i]
            stepPath == basePath \o "." \o ToString(i - 1)
        IN  <<Visit(step, stepPath)>> \o
            (CASE step.type = "parallel" ->
                    visitStepsArmLocal(step.steps, stepPath \o ".steps")
               [] step.type \in {"foreach", "dowhile", "dountil"} ->
                    visitStepsArmLocal(<<step.steps[1]>>, stepPath \o ".step")
               [] OTHER -> <<>>)])

RECURSIVE visitSteps(_, _)
visitSteps(steps, basePath) ==
    Concat([i \in 1..Len(steps) |->
        LET step == steps[i]
            stepPath == basePath \o "." \o ToString(i - 1)
        IN  <<Visit(step, stepPath)>> \o
            (CASE step.type = "branch" ->
                    Concat([b \in 1..Len(step.branches) |->
                        visitSteps(step.branches[b].steps,
                                   stepPath \o ".branches." \o ToString(b - 1)
                                            \o ".steps")])
               [] step.type = "parallel" ->
                    visitSteps(step.steps, stepPath \o ".steps")
               [] step.type \in {"foreach", "dowhile", "dountil"} ->
                    visitSteps(<<step.steps[1]>>, stepPath \o ".step")
               [] OTHER -> <<>>)])

\* faulty variant: a duplicate overwrites the remembered definition
RECURSIVE uniqueIdsFoldLastSeen(_, _, _)
uniqueIdsFoldLastSeen(visits, k, seen) ==
    IF k > Len(visits) THEN <<>>
    ELSE LET step == visits[k].step
             path == visits[k].path
             remember == (step.id :> (path \o ".id")) @@ seen
         IN  IF ~HasId(step) THEN uniqueIdsFoldLastSeen(visits, k + 1, seen)
             ELSE IF step.id \in DOMAIN seen
             THEN <<Issue(path \o ".id", "error",
                          MsgDuplicate(step.id, seen[step.id]))>>
                  \o uniqueIdsFoldLastSeen(visits, k + 1, remember)
             ELSE uniqueIdsFoldLastSeen(visits, k + 1, remember)

\* the visitor of validateUniqueStepIds, folded over the visits: seen is the
\* Map from id to the path of its first definition
RECURSIVE uniqueIdsFold(_, _, _)
uniqueIdsFold(visits, k, seen) ==
    IF k > Len(visits) THEN <<>>
    ELSE LET step == visits[k].step
             path == visits[k].path
         IN  IF ~HasId(step) THEN uniqueIdsFold(visits, k + 1, seen)
             ELSE IF step.id \in DOMAIN seen
             THEN <<Issue(path \o ".id", "error",
                          MsgDuplicate(step.id, seen[step.id]))>>
                  \o uniqueIdsFold(visits, k + 1, seen)
             ELSE uniqueIdsFold(visits, k + 1,
                                (step.id :> (path \o ".id")) @@ seen)

validateUniqueStepIds(steps, basePath) ==
    uniqueIdsFold(visitSteps(steps, basePath), 1, <<>>)

----------------------------------------------------------------------------
(* The handler registry: a function from bucket name to the names present   *)
(* in the bucket; a bucket the registry lacks is outside its domain.        *)
(* Handler names are dot-free here, so `prefix.${name}` splits into         *)
(* <<prefix, name>>.                                                        *)

InBucket(reg, bucket, name) == bucket \in DOMAIN reg /\ name \in reg[bucket]

\* const [namespace, name] = handlerId.includes(".") ? handlerId.split(".") : ["handlers", handlerId]
Namespace(handlerId) == IF Len(handlerId) > 1 THEN handlerId[1] ELSE "handlers"

NameOf(handlerId) == IF Len(handlerId) > 1 THEN handlerId[2] ELSE handlerId[1]

handlerExists(reg, handlerId) ==
    LET namespace == Namespace(handlerId)
        name == NameOf(handlerId)
    IN  IF namespace = "handlers" THEN InBucket(reg, "handlers", name)
        ELSE IF namespace = "agent" THEN InBucket(reg, "agents", name)
        ELSE IF namespace = "tool" THEN InBucket(reg, "tools", name)
        ELSE InBucket(reg, namespace, name)

validateHandlersVisit(step, path, reg) ==
    (IF step.type = "step" /\ ~handlerExists(reg, <<"handlers", step.name>>)
     THEN <<Issue(path \o ".action", "error",
                  "Missing handler: " \o step.name \o ".")>>
     ELSE <<>>)
    \o
    (IF step.type = "agent" /\ ~handlerExists(reg, <<"agent", step.name>>)
     THEN <<Issue(path \o ".agent", "error",
                  "Missing agent: " \o step.name \o ".")>>
     ELSE <<>>)
    \o
    (IF step.type \in {"tool", "mcp"} /\ ~handlerExists(reg, <<"tool", step.name>>)
     THEN <<Issue(path \o ".tool", "error",
                  "Missing tool: " \o step.name \o ".")>>
     ELSE <<>>)
    \o
    (IF step.type = "branch"
     THEN Concat([b \in 1..Len(step.branches) |->
            IF ~handlerExists(reg, step.branches[b].handler)
            THEN <<Issue(path \o ".branches." \o ToString(b - 1)
                              \o ".when.handler", "error",
                         "Missing handler: "
                             \o Dotted(step.branches[b].handler) \o ".")>>
            ELSE <<>>])
     ELSE <<>>)
    \o
    (IF step.type \in {"dowhile", "dountil"}
        /\ ~handlerExists(reg, step.condition)
     THEN <<Issue(path \o ".condition.handler", "error",
                  "Missing handler: " \o Dotted(step.condition) \o ".")>>
     ELSE <<>>)
    \o
    (IF step.type = "workflow" /\ ~InBucket(reg, "workflows", step.name)
     THEN <<Issue(path \o ".workflowId", "error",
                  "Missing workflow: " \o step.name \o ".")>>
     ELSE <<>>)

validateHandlers(steps, basePath, reg) ==
    LET visits == visitSteps(steps, basePath) IN
    Concat([k \in 1..Len(visits) |->
                validateHandlersVisit(visits[k].step, visits[k].path, reg)])

----------------------------------------------------------------------------
(* The workflow specification and validateWorkflowSchemas *)

WorkflowSpec(id, inputSchema, schemaCompatibility, steps) ==
    [id |-> id, inputSchema |-> inputSchema,
     schemaCompatibility |-> schemaCompatibility, steps |-> steps]

\* faulty variant: an absent option means strict
ModeOfDefaultStrict(wf) ==
    IF wf.schemaCompatibility = Absent THEN "strict" ELSE wf.schemaCompatibility

\* spec.options?.schemaCompatibility ?? "warn"
ModeOf(wf) ==
    IF wf.schemaCompatibility = Absent THEN "warn" ELSE wf.schemaCompatibility

\* faulty variant: a pass is skipped once an earlier pass found an issue
validateWorkflowSchemasFailFast(wf, withRegistry, reg) ==
    LET basePath == wf.id \o ".steps"
        mode == ModeOf(wf)
        shape == validateSequence(wf.steps, wf.id, mode, wf.inputSchema)
        ids == validateUniqueStepIds(wf.steps, basePath)
    IN  IF shape # <<>> THEN shape
        ELSE IF ids # <<>> THEN ids
        ELSE IF withRegistry THEN validateHandlers(wf.steps, basePath, reg)
        ELSE <<>>

validateWorkflowSchemas(wf, withRegistry, reg) ==
    LET basePath == wf.id \o ".steps"
        mode == ModeOf(wf)
    IN  validateSequence(wf.steps, wf.id, mode, wf.inputSchema)
        \o validateUniqueStepIds(wf.steps, basePath)
        \o (IF withRegistry THEN validateHandlers(wf.steps, basePath, reg)
            ELSE <<>>)

IssuesWith(iss, severity) == SelectSeq(iss, LAMBDA i : i.severity = severity)

----------------------------------------------------------------------------
(* resolveHandler: Absent when a handler is returned, else the message of   *)
(* the Error thrown                                                         *)

resolveHandler(reg, handlerId) ==
    LET namespace == Namespace(handlerId)
        name == NameOf(handlerId)
        id == Dotted(handlerId)
        need(bucket, key, what) ==
            IF InBucket(reg, bucket, key) THEN Absent
            ELSE "Missing " \o what \o ": " \o id
    IN  IF namespace = "handlers" THEN need("handlers", name, "handler")
        ELSE IF namespace = "agent" THEN need("agents", name, "agent")
        ELSE IF namespace = "tool" THEN need("tools", name, "tool")
        ELSE IF namespace = "mcp" THEN
            IF Len(handlerId) >= 3
            THEN need("mcp", Dotted(Tail(handlerId)), "MCP handler")
            ELSE "Invalid MCP handler ID format: " \o id
        ELSE IF namespace = "network" THEN need("networks", name, "network handler")
        ELSE IF namespace \in {"tts", "listen"} THEN need("voice", name, "voice handler")
        ELSE IF namespace \in {"documentChunk", "documentMetadata", "documentTransform"}
            THEN need("document", name, "document handler")
        ELSE IF namespace \in {"graphRag", "graphRagQuery"}
            THEN need("graphRag", name, "GraphRAG handler")
        ELSE IF namespace = "evals" THEN need("evals", name, "eval scorer")
        ELSE need(namespace, name, "handler")

----------------------------------------------------------------------------
(* Graph construction.  A build result is the runtime primitives called, in *)
(* order, and the message of the Error that cut construction short (Absent  *)
(* when none was thrown).                                                   *)

Prim(op, id) == [op |-> op, id |-> id, opts |-> <<>>]

\* a primitive called with an options argument
PrimWith(op, id, opts) == [op |-> op, id |-> id, opts |-> <<opts>>]

Built(primitives) == [calls |-> primitives, error |-> Absent]

Threw(primitives, message) == [calls |-> primitives, error |-> message]

\* the handler id buildStep derives for a leaf variant
handlerIdOf(step) ==
    IF step.type = "agent" THEN <<"agent", step.name>>
    ELSE IF step.type = "step" THEN <<"handlers", step.name>>
    ELSE IF step.type = "tool" THEN <<"tool", step.name>>
    ELSE IF step.type \in {"memory", "vectorStore", "rag", "http", "logger",
                           "requestContext"}
        THEN <<step.type, step.name>>
    ELSE IF step.type = "mcp" THEN <<"mcp", step.server, step.name>>
    ELSE IF step.type = "network" THEN <<"network", step.name>>
    ELSE IF step.type = "evals" THEN <<"evals", step.name>>
    ELSE <<step.type, step.id>>

buildStep(step, reg) ==
    IF step.type \in {"sleep", "sleepUntil", "map", "humanInput", "bail"}
    THEN Threw(<<>>, "buildStep cannot handle control step type: " \o step.type)
    ELSE IF step.type = "workflow"
    THEN IF InBucket(reg, "workflows", step.name) THEN Built(<<>>)
         ELSE Threw(<<>>, "Missing nested workflow: " \o step.name)
    ELSE IF step.type \in {"suspend", "resume"}
    THEN Threw(<<>>, "buildStep cannot handle control step type: " \o step.type)
    ELSE IF step.type \notin LeafTypes
    THEN Threw(<<>>, "Unknown step type: " \o step.type)
    ELSE IF step.type = "step" /\ step.name \in {"", Absent}
    THEN Threw(<<>>, "Missing handler/agent/action/tool for step")
    ELSE LET missing == resolveHandler(reg, handlerIdOf(step)) IN
         IF missing # Absent THEN Threw(<<>>, missing)
         ELSE Built(<<Prim("createStep", step.id)>>)

\* step.id || `${step.type}.${Date.now()}`, the clock reading kept symbolic
unitIdOf(step) ==
    IF HasId(step) /\ step.id # "" THEN step.id
    ELSE step.type \o "." \o "<Date.now()>"

\* faulty variant: the declared concurrency is not forwarded
foreachConcurrencyIgnored(step) == 1

\* step.concurrency ?? 1
foreachConcurrency(step) ==
    IF step.concurrency = <<>> THEN 1 ELSE step.concurrency[1]

\* the leaf variants applySteps hands to buildStep
AppliedLeafTypes == LeafTypes \ {"mcp"}

\* a then b, where a throw in a skips b
AndThen(a, b) ==
    IF a.error # Absent THEN a
    ELSE [calls |-> a.calls \o b.calls, error |-> b.error]

RECURSIVE AllOf(_)
AllOf(results) ==
    IF results = <<>> THEN Built(<<>>)
    ELSE AndThen(Head(results), AllOf(Tail(results)))

RECURSIVE applySteps(_, _, _)
RECURSIVE applyStep(_, _, _)

buildBranchWorkflow(parentId, branchIndex, steps, reg) ==
    LET id == parentId \o ".branch." \o ToString(branchIndex) IN
    AllOf(<<Built(<<Prim("createWorkflow", id)>>),
            applySteps(id, steps, reg),
            Built(<<Prim("commit", id)>>)>>)

\* one iteration of the loop of applySteps over workflow `workflowId`
applyStep(workflowId, step, reg) ==
    CASE step.type \in AppliedLeafTypes ->
           AndThen(buildStep(step, reg), Built(<<Prim("then", step.id)>>))
      [] step.type = "workflow" ->
           IF ~InBucket(reg, "workflows", step.name)
           THEN Threw(<<>>, "Missing nested workflow: " \o step.name)
           ELSE LET nestedId == workflowId \o "." \o step.name IN
                Built(<<Prim("cloneWorkflow", nestedId)>>
                      \o (IF step.hasMapping
                          THEN <<Prim("createWorkflow", nestedId \o ".mapping"),
                                 Prim("map", nestedId \o ".mapping"),
                                 Prim("then", nestedId),
                                 Prim("commit", nestedId \o ".mapping"),
                                 Prim("then", nestedId \o ".mapping")>>
                          ELSE <<Prim("then", nestedId)>>))
      [] step.type = "map" -> Built(<<Prim("map", step.id)>>)
      [] step.type = "sleep" -> Built(<<Prim("sleep", workflowId)>>)
      [] step.type = "sleepUntil" -> Built(<<Prim("sleepUntil", workflowId)>>)
      [] step.type = "parallel" ->
           AndThen(AllOf([m \in 1..Len(step.steps) |-> buildStep(step.steps[m], reg)]),
                   Built(<<Prim("parallel", workflowId)>>))
      [] step.type = "branch" ->
           AndThen(AllOf([b \in 1..Len(step.branches) |->
                     LET missing == resolveHandler(reg, step.branches[b].handler) IN
                     IF missing # Absent THEN Threw(<<>>, missing)
                     ELSE buildBranchWorkflow(workflowId, b - 1,
                                              step.branches[b].steps, reg)]),
                   Built(<<Prim("branch", workflowId)>>))
      [] step.type = "foreach" ->
           AndThen(buildStep(step.steps[1], reg),
                   Built(<<PrimWith("foreach", workflowId,
                                    [concurrency |-> foreachConcurrency(step)])>>))
      [] step.type \in {"dowhile", "dountil"} ->
           AllOf(<<buildStep(step.steps[1], reg),
                   LET missing == resolveHandler(reg, step.condition) IN
                   IF missing # Absent THEN Threw(<<>>, missing) ELSE Built(<<>>),
                   Built(<<Prim(step.type, workflowId)>>)>>)
      [] step.type \in {"humanInput", "bail", "suspend", "resume"} ->
           Built(<<Prim("createStep", unitIdOf(step)),
                   Prim("then", unitIdOf(step))>>)
      [] OTHER -> Threw(<<>>, "Unsupported step type: " \o step.type)

applySteps(workflowId, steps, reg) ==
    AllOf([k \in 1..Len(steps) |-> applyStep(workflowId, steps[k], reg)])

\* the newline-joined `path: message` lines of a compile failure
RECURSIVE ErrorLines(_)
ErrorLines(errors) ==
    IF errors = <<>> THEN ""
    ELSE IF Len(errors) = 1 THEN errors[1].path \o ": " \o errors[1].message
    ELSE errors[1].path \o ": " \o errors[1].message \o "\n"
         \o ErrorLines(Tail(errors))

----------------------------------------------------------------------------
(* The entry points as a state machine.                                     *)
(*   validateWorkflowSchemas(spec) and validateWorkflowSchemas(spec,        *)
(*   registry) are one step each.  compileWorkflow(spec, registry) runs     *)
(*   through pc: "idle" -> "checked" (issues in hand) -> "failed" (thrown)  *)
(*   or "building" (root workflow created) -> "built" (steps applied) ->    *)
(*   "done" (committed and returned).                                       *)

HasErrors(iss) == IssuesWith(iss, "error") # <<>>

ValidateSchemas ==
    /\ pc = "idle"
    /\ issues' = validateWorkflowSchemas(spec, FALSE, registry)
    /\ call' = "validate"
    /\ pc' = "validated"
    /\ UNCHANGED <<spec, registry, calls, thrown, warnings,
                   tmplValue, tmplContext, tmplResult, runVars>>

ValidateSchemasWithRegistry ==
    /\ pc = "idle"
    /\ issues' = validateWorkflowSchemas(spec, TRUE, registry)
    /\ call' = "validateWithRegistry"
    /\ pc' = "validated"
    /\ UNCHANGED <<spec, registry, calls, thrown, warnings,
                   tmplValue, tmplContext, tmplResult, runVars>>

\* compiler.ts 634: const issues = validateWorkflowSchemas(spec, registry)
CompileValidate ==
    /\ pc = "idle"
    /\ issues' = validateWorkflowSchemas(spec, TRUE, registry)
    /\ call' = "compile"
    /\ pc' = "checked"
    /\ UNCHANGED <<spec, registry, calls, thrown, warnings,
                   tmplValue, tmplContext, tmplResult, runVars>>

\* compiler.ts 635-641: errors.length > 0 -> throw
CompileThrow ==
    /\ pc = "checked"
    /\ HasErrors(issues)
    /\ thrown' = "Schema validation failed:\n"
                    \o ErrorLines(IssuesWith(issues, "error"))
    /\ pc' = "failed"
    /\ UNCHANGED <<spec, registry, call, issues, calls, warnings,
                   tmplValue, tmplContext, tmplResult, runVars>>

\* faulty variant: the root workflow is created without looking at the errors
CompileCreateWorkflowUnchecked ==
    /\ pc = "checked"
    /\ calls' = calls \o <<Prim("createWorkflow", spec.id)>>
    /\ pc' = "building"
    /\ UNCHANGED <<spec, registry, call, issues, thrown, warnings,
                   tmplValue, tmplContext, tmplResult, runVars>>

\* compiler.ts 642-651: createWorkflow({id: spec.id, ...})
CompileCreateWorkflow ==
    /\ pc = "checked"
    /\ ~HasErrors(issues)
    /\ calls' = calls \o <<Prim("createWorkflow", spec.id)>>
    /\ pc' = "building"
    /\ UNCHANGED <<spec, registry, call, issues, thrown, warnings,
                   tmplValue, tmplContext, tmplResult, runVars>>

\* faulty variant: an error thrown while the steps are applied is dropped
CompileApplyStepsLenient ==
    /\ pc = "building"
    /\ LET built == applySteps(spec.id, spec.steps, registry) IN
       /\ calls' = calls \o built.calls
       /\ thrown' = Absent
       /\ pc' = "built"
    /\ UNCHANGED <<spec, registry, call, issues, warnings,
                   tmplValue, tmplContext, tmplResult, runVars>>

\* compiler.ts 653: applySteps(workflow, spec.steps, registry)
CompileApplySteps ==
    /\ pc = "building"
    /\ LET built == applySteps(spec.id, spec.steps, registry) IN
       /\ calls' = calls \o built.calls
       /\ thrown' = built.error
       /\ pc' = IF built.error # Absent THEN "failed" ELSE "built"
    /\ UNCHANGED <<spec, registry, call, issues, warnings,
                   tmplValue, tmplContext, tmplResult, runVars>>

\* faulty variant: the graph is returned without the warnings
CompileCommitWithoutWarnings ==
    /\ pc = "built"
    /\ calls' = calls \o <<Prim("commit", spec.id)>>
    /\ warnings' = <<>>
    /\ pc' = "done"
    /\ UNCHANGED <<spec, registry, call, issues, thrown,
                   tmplValue, tmplContext, tmplResult, runVars>>

\* compiler.ts 654-657: return {workflow: built.commit(), warnings}
CompileCommit ==
    /\ pc = "built"
    /\ calls' = calls \o <<Prim("commit", spec.id)>>
    /\ warnings' = IssuesWith(issues, "warning")
    /\ pc' = "done"
    /\ UNCHANGED <<spec, registry, call, issues, thrown,
                   tmplValue, tmplContext, tmplResult, runVars>>

Next ==
    \/ ValidateSchemas
    \/ ValidateSchemasWithRegistry
    \/ CompileValidate
    \/ CompileThrow
    \/ CompileCreateWorkflow
    \/ CompileApplySteps
    \/ CompileCommit

\* the state before any call, for a given spec and registry
Start(wf, reg) ==
    /\ spec = wf
    /\ registry = reg
    /\ pc = "idle"
    /\ call = Absent
    /\ issues = <<>>
    /\ calls = <<>>
    /\ thrown = Absent
    /\ warnings = <<>>
    /\ tmplValue = <<>>
    /\ tmplContext = <<>>
    /\ tmplResult = <<>>
    /\ NotRunning

----------------------------------------------------------------------------
(* Two compileWorkflow calls on the same spec and registry.  The locals of  *)
(* the second call (issues, the primitives it called, what it threw, the    *)
(* warnings it returned, its position) are the record `second`; its steps   *)
(* interleave with those of the first call.                                 *)

CompileCall(at, iss, primitives, message, warns) ==
    [pc |-> at, issues |-> iss, calls |-> primitives, thrown |-> message,
     warnings |-> warns]

NotCalled == CompileCall("idle", <<>>, <<>>, Absent, <<>>)

\* faulty variant: the root workflow is added to a builder the calls share
compileWorkflowShared(c, wf, reg) ==
    IF c.pc = "idle"
    THEN [c EXCEPT !.issues = validateWorkflowSchemas(wf, TRUE, reg),
                   !.pc = "checked"]
    ELSE IF c.pc = "checked" /\ HasErrors(c.issues)
    THEN [c EXCEPT !.thrown = "Schema validation failed:\n"
                                 \o ErrorLines(IssuesWith(c.issues, "error")),
                   !.pc = "failed"]
    ELSE IF c.pc = "checked"
    THEN [c EXCEPT !.calls = calls \o <<Prim("createWorkflow", wf.id)>>,
                   !.pc = "building"]
    ELSE IF c.pc = "building"
    THEN LET built == applySteps(wf.id, wf.steps, reg) IN
         [c EXCEPT !.calls = c.calls \o built.calls,
                   !.thrown = built.error,
                   !.pc = IF built.error # Absent THEN "failed" ELSE "built"]
    ELSE [c EXCEPT !.calls = c.calls \o <<Prim("commit", wf.id)>>,
                   !.warnings = IssuesWith(c.issues, "warning"),
                   !.pc = "done"]

\* the next position of a compileWorkflow(wf, reg) call whose locals are c
compileWorkflow(c, wf, reg) ==
    IF c.pc = "idle"
    THEN [c EXCEPT !.issues = validateWorkflowSchemas(wf, TRUE, reg),
                   !.pc = "checked"]
    ELSE IF c.pc = "checked" /\ HasErrors(c.issues)
    THEN [c EXCEPT !.thrown = "Schema validation failed:\n"
                                 \o ErrorLines(IssuesWith(c.issues, "error")),
                   !.pc = "failed"]
    ELSE IF c.pc = "checked"
    THEN [c EXCEPT !.calls = c.calls \o <<Prim("createWorkflow", wf.id)>>,
                   !.pc = "building"]
    ELSE IF c.pc = "building"
    THEN LET built == applySteps(wf.id, wf.steps, reg) IN
         [c EXCEPT !.calls = c.calls \o built.calls,
                   !.thrown = built.error,
                   !.pc = IF built.error # Absent THEN "failed" ELSE "built"]
    ELSE [c EXCEPT !.calls = c.calls \o <<Prim("commit", wf.id)>>,
                   !.warnings = IssuesWith(c.issues, "warning"),
                   !.pc = "done"]

\* one step of the second call
SecondCompile ==
    /\ second.pc \in {"idle", "checked", "building", "built"}
    /\ second' = compileWorkflow(second, spec, registry)
    /\ UNCHANGED <<spec, registry, pc, call, issues, calls, thrown, warnings,
                   tmplValue, tmplContext, tmplResult, unit, invocation,
                   effects, outcome>>

NextTwice ==
    \/ ValidateSchemas
    \/ ValidateSchemasWithRegistry
    \/ CompileValidate
    \/ CompileThrow
    \/ CompileCreateWorkflow
    \/ CompileApplySteps
    \/ CompileCommit
    \/ SecondCompile

----------------------------------------------------------------------------
(* parseWorkflowYaml: the document is checked against WorkflowSpecSchema     *)
(* before anything else sees it.  Of the schema, the model keeps the union   *)
(* of step variants and the length constraints on sequences.                 *)

\* the `type` literals of the members of the StepNode union
StepNodeTypes ==
    LeafTypes \cup {"suspend", "resume", "sleep", "sleepUntil", "humanInput",
                    "bail", "map", "foreach", "branch", "parallel", "dowhile",
                    "dountil", "workflow"}

RECURSIVE StepNode(_)
\* StepNode.safeParse(step).success
StepNode(step) ==
    /\ step.type \in StepNodeTypes
    /\ step.type = "parallel" =>
          /\ Len(step.steps) >= 1
          /\ \A m \in 1..Len(step.steps) : StepNode(step.steps[m])
    /\ step.type = "branch" =>
          /\ Len(step.branches) >= 1
          /\ \A b \in 1..Len(step.branches) :
                \A j \in 1..Len(step.branches[b].steps) :
                   StepNode(step.branches[b].steps[j])
    /\ step.type \in {"foreach", "dowhile", "dountil"} => StepNode(step.steps[1])

\* WorkflowSpecSchema.safeParse(data).success
WorkflowSpecSchema(data) ==
    /\ Len(data.steps) >= 1
    /\ \A k \in 1..Len(data.steps) : StepNode(data.steps[k])

\* parseWorkflowYaml(yamlText), the text held as the document it denotes
ParseWorkflowYaml ==
    /\ pc = "raw"
    /\ IF WorkflowSpecSchema(spec)
       THEN pc' = "idle" /\ thrown' = Absent
       ELSE pc' = "rejected" /\ thrown' = "Spec validation failed"
    /\ UNCHANGED <<spec, registry, call, issues, calls, warnings,
                   tmplValue, tmplContext, tmplResult, runVars>>

NextParse ==
    \/ ParseWorkflowYaml
    \/ ValidateSchemas
    \/ ValidateSchemasWithRegistry
    \/ CompileValidate
    \/ CompileThrow
    \/ CompileCreateWorkflow
    \/ CompileApplySteps
    \/ CompileCommit

----------------------------------------------------------------------------
(* Inputs: step trees over a small set of ids, by number of nodes *)

MaxNodes == 4

StepIds == {"a", "b"}

ObjectSchema == Plain(TStr("object"))

CondHandler == <<"handlers", "cond">>

IdLeaves == {GenericStep(id, "act", ObjectSchema, ObjectSchema) : id \in StepIds}

RECURSIVE TreesOfSize(_)
RECURSIVE ForestsOfSize(_)
RECURSIVE ArmsOfSize(_)

\* the step trees of exactly n nodes
TreesOfSize(n) ==
    IF n = 1 THEN IdLeaves
    ELSE {ForeachStep(t) : t \in TreesOfSize(n - 1)}
         \cup {DoWhileStep(t, CondHandler) : t \in TreesOfSize(n - 1)}
         \cup {DoUntilStep(t, CondHandler) : t \in TreesOfSize(n - 1)}
         \cup {ParallelStep(f) : f \in ForestsOfSize(n - 1)}
         \cup {BranchStep(arms) : arms \in ArmsOfSize(n - 1)}

\* the non-empty step sequences of exactly n nodes
ForestsOfSize(n) ==
    UNION {{<<t>> \o f : t \in TreesOfSize(k),
                         f \in (IF k = n THEN {<<>>} ELSE ForestsOfSize(n - k))}
           : k \in 1..n}

\* the non-empty lists of branch arms whose sequences hold n nodes together
ArmsOfSize(n) ==
    UNION {{<<Arm(CondHandler, f)>> \o rest :
                f \in ForestsOfSize(k),
                rest \in (IF k = n THEN {<<>>} ELSE ArmsOfSize(n - k))}
           : k \in 1..n}

IdSpecs ==
    {WorkflowSpec("wf", ObjectSchema, mode, steps) :
        mode \in {"warn", "strict"},
        steps \in UNION {ForestsOfSize(n) : n \in 1..MaxNodes}}

FullRegistry == [handlers |-> {"act", "cond"}]

BareRegistry == [handlers |-> {"act"}]

Init == \E wf \in IdSpecs, reg \in {FullRegistry, BareRegistry} : Start(wf, reg)

Spec == Init /\ [][Next]_vars

----------------------------------------------------------------------------
(* Inputs: sequences whose steps declare schemas.  SchemaPairs puts every   *)
(* schema of SchemaSet on both sides of one producer/consumer pair;         *)
(* SchemaWalks runs short sequences of leaves and control steps over a few  *)
(* shapes.  Ids are numbered by position, so they are unique.               *)

MaxSeqLen == 2

StringSchema == Plain(TStr("string"))

ArrayOf(items) == Schema(TStr("array"), FALSE, NoEnum, {}, <<>>, NoProps, items)

ObjectWith(required, keys) ==
    Schema(TStr("object"), FALSE, NoEnum, {}, required,
           [has |-> TRUE, keys |-> keys], NoSchema)

EnumOf(vals) ==
    Schema(TStr("string"), FALSE, [has |-> TRUE, vals |-> vals], {}, <<>>,
           NoProps, NoSchema)

SchemaSet ==
    {ObjectSchema, StringSchema, Plain(NoType), ListSchema,
     ObjectWith(<<>>, {"result"}),
     ObjectWith(<<"value">>, {"value"}),
     ObjectWith(<<"value", "extra">>, {"value", "extra"}),
     Schema(TStr("object"), FALSE, NoEnum, {}, <<"value">>, NoProps, NoSchema),
     Plain(TArr(<<"object", "null">>)),
     Schema(TArr(<<"object", "null">>), FALSE, NoEnum, {}, <<"value">>,
            NoProps, NoSchema),
     Plain(TArr(<<"string", "null">>)),
     Plain(TArr(<<"array", "null">>)),
     Plain(TStr("array")),
     ArrayOf(StringSchema),
     ArrayOf(ObjectWith(<<>>, {"result"})),
     ArrayOf(ObjectWith(<<"value">>, {"value"})),
     EnumOf({"x"}), EnumOf({"x", "y"}),
     Schema(TStr("string"), FALSE, NoEnum, {"minLength"}, <<>>, NoProps, NoSchema),
     Schema(NoType, TRUE, NoEnum, {}, <<>>, NoProps, NoSchema),
     Schema(TStr("object"), TRUE, NoEnum, {}, <<"value">>, NoProps, NoSchema)}

Modes == {Absent, "warn", "strict"}

SchemaPairs ==
    {WorkflowSpec("wf", ObjectSchema, mode,
                  <<GenericStep("s0", "act", ObjectSchema, out),
                    GenericStep("s1", "act", in, ObjectSchema)>>) :
        mode \in Modes, out \in SchemaSet, in \in SchemaSet}

WalkInputs == {ObjectSchema, StringSchema, ArrayOf(ObjectSchema)}

WalkOutputs == WalkInputs \cup {Plain(TArr(<<"array", "null">>))}

\* the steps a walk is made of; "?" stands for the id set by Renumber
WalkSteps ==
    {GenericStep("?", "act", in, out) : in \in WalkInputs, out \in WalkOutputs}
    \cup {ForeachStep(GenericStep("?", "act", ObjectSchema, out)) :
             out \in {ObjectSchema, StringSchema}}
    \cup {ForeachStep(SleepStep(Absent)),
          DoWhileStep(GenericStep("?", "act", ObjectSchema, ObjectSchema),
                      CondHandler),
          MapStep(Absent, <<literal("k")>>),
          SleepStep(Absent),
          ParallelStep(<<GenericStep("?", "act", StringSchema, ObjectSchema),
                         GenericStep("?", "act", ObjectSchema, ObjectSchema)>>),
          BranchStep(<<Arm(CondHandler,
                           <<GenericStep("?", "act", StringSchema, ObjectSchema)>>),
                       Arm(CondHandler,
                           <<GenericStep("?", "act", ObjectSchema, StringSchema),
                             ForeachStep(GenericStep("?", "act", ObjectSchema,
                                                     ObjectSchema))>>)>>)}

RECURSIVE SeqsUpTo(_, _)
SeqsUpTo(S, n) ==
    IF n = 0 THEN {<<>>}
    ELSE LET shorter == SeqsUpTo(S, n - 1) IN
         shorter \cup {Append(q, x) : q \in shorter, x \in S}

\* gives every id-carrying step of the tree an id of its own: its position
RECURSIVE Renumber(_, _)
Renumber(steps, prefix) ==
    [i \in 1..Len(steps) |->
        LET step == steps[i]
            here == prefix \o ToString(i - 1)
        IN  [step EXCEPT
                !.id = IF HasId(step) THEN here ELSE Absent,
                !.steps = Renumber(step.steps, here \o "m"),
                !.branches =
                    [b \in 1..Len(step.branches) |->
                        [step.branches[b] EXCEPT
                            !.steps = Renumber(step.branches[b].steps,
                                               here \o "b" \o ToString(b - 1)
                                                    \o "s")]]]]

SchemaWalks ==
    {WorkflowSpec("wf", input, mode, Renumber(steps, "s")) :
        input \in {ObjectSchema, ArrayOf(ObjectSchema)},
        mode \in {"warn", "strict"},
        steps \in SeqsUpTo(WalkSteps, MaxSeqLen) \ {<<>>}}

InitSchemas ==
    \E wf \in SchemaPairs \cup SchemaWalks : Start(wf, FullRegistry)

SpecSchemas == InitSchemas /\ [][Next]_vars

----------------------------------------------------------------------------
(* Inputs: sequences with map steps and sub-workflow input mappings whose   *)
(* from:'step' entries name a step before them, after them, themselves, a   *)
(* step of another scope, or no step at all.                                *)

MaxMapSeqLen == 3

MapRefs == {"a", "b", "m", "zz"}

MapUnits ==
    IdLeaves
    \cup {MapStep("m", <<fromStep("k", ref)>>) : ref \in MapRefs}
    \cup {MapStep(Absent, <<fromInit("k"), literal("v"), fromStep("w", "a")>>),
          WorkflowStep("child", <<fromStep("k", "a")>>, TRUE),
          WorkflowStep("child", <<>>, FALSE),
          BranchStep(<<Arm(CondHandler,
                           <<GenericStep("a", "act", ObjectSchema, ObjectSchema),
                             MapStep("m", <<fromStep("k", "a")>>)>>)>>),
          BranchStep(<<Arm(CondHandler,
                           <<MapStep("m", <<fromStep("k", "b")>>)>>)>>)}

MappingSpecs ==
    {WorkflowSpec("wf", ObjectSchema, "warn", steps) :
        steps \in SeqsUpTo(MapUnits, MaxMapSeqLen) \ {<<>>}}

MappingRegistry == [handlers |-> {"act", "cond"}, workflows |-> {"child"}]

InitMappings == \E wf \in MappingSpecs : Start(wf, MappingRegistry)

SpecMappings == InitMappings /\ [][Next]_vars

----------------------------------------------------------------------------
(* Inputs: every leaf variant, branch condition, loop condition and         *)
(* workflow reference, with a target the registry holds ("present") or      *)
(* lacks ("missing"), at the top level and one level down.                  *)

TargetNames == {"present", "missing"}

\* the variants whose handler id is built from the step id
IdTargeted ==
    {"tts", "listen", "documentChunk", "documentMetadata", "documentTransform",
     "graphRag", "graphRagQuery"}

TargetLeaf(type, target) ==
    IF type \in IdTargeted
    THEN Leaf(type, target, Absent, Absent, ObjectSchema, ObjectSchema)
    ELSE Leaf(type, "s0", target, IF type = "mcp" THEN "srv" ELSE Absent,
              ObjectSchema, ObjectSchema)

\* declared values of foreach.concurrency
Concurrencies == {0, 2, 8}

TargetLeaves == {TargetLeaf(type, target) : type \in LeafTypes, target \in TargetNames}

CondHandlers == {<<"handlers", target>> : target \in TargetNames}

\* condition handlers written mcp.<server>.<tool>
McpCondHandlers == {<<"mcp", "srv", target>> : target \in TargetNames}

HandlerTrees ==
    TargetLeaves
    \cup {ForeachStep(leaf) : leaf \in TargetLeaves}
    \cup {ForeachStepOf(leaf, concurrency) :
             leaf \in TargetLeaves, concurrency \in Concurrencies}
    \cup {ParallelStep(<<leaf>>) : leaf \in TargetLeaves}
    \cup {BranchStep(<<Arm(handler, <<leaf>>)>>) :
             handler \in CondHandlers, leaf \in TargetLeaves}
    \cup {DoWhileStep(leaf, handler) : handler \in CondHandlers, leaf \in TargetLeaves}
    \cup {DoUntilStep(leaf, handler) : handler \in CondHandlers, leaf \in TargetLeaves}
    \cup {WorkflowStep(target, <<>>, FALSE) : target \in TargetNames}
    \cup {BranchStep(<<Arm(handler, <<TargetLeaf("step", "present")>>)>>) :
             handler \in McpCondHandlers}
    \cup {DoWhileStep(TargetLeaf("step", "present"), handler) :
             handler \in McpCondHandlers}

HandlerSpecs ==
    {WorkflowSpec("wf", ObjectSchema, mode, <<tree>>) :
        mode \in {"warn", "strict"}, tree \in HandlerTrees}

\* every bucket of HandlerRegistry, each holding "present"
PresentRegistry ==
    [handlers |-> {"present"}, agents |-> {"present"}, tools |-> {"present"},
     workflows |-> {"present"}, mcp |-> {"srv.present"},
     networks |-> {"present"}, voice |-> {"present"}, document |-> {"present"},
     graphRag |-> {"present"}, evals |-> {"present"}, memory |-> {"present"},
     vectorStore |-> {"present"}, rag |-> {"present"}, http |-> {"present"},
     logger |-> {"present"}, requestContext |-> {"present"}]

InitHandlers == \E wf \in HandlerSpecs : Start(wf, PresentRegistry)

SpecHandlers == InitHandlers /\ [][Next]_vars

----------------------------------------------------------------------------
(* Inputs: sequences of leaves and control steps, among them steps without  *)
(* an id, a leaf whose handler is missing, a variant applySteps does not    *)
(* dispatch, a step whose type is no variant at all, branch steps whose     *)
(* arms hold steps of different ids, and a workflow reference.              *)

MaxCompileLen == 2

CompileUnits ==
    {Leaf("step", "a", "present", Absent, ObjectSchema, ObjectSchema),
     Leaf("step", "b", "present", Absent, ObjectSchema, StringSchema),
     Leaf("step", "b", "missing", Absent, ObjectSchema, ObjectSchema),
     Leaf("custom", "x", "present", Absent, ObjectSchema, ObjectSchema),
     Control("bail", Absent, <<>>, <<>>, <<>>, <<>>, FALSE),
     Control("suspend", Absent, <<>>, <<>>, <<>>, <<>>, FALSE),
     Leaf("mcp", "m", "present", "srv", ObjectSchema, ObjectSchema),
     SleepStep(Absent),
     ForeachStep(Leaf("step", "e", "present", Absent, ObjectSchema, ObjectSchema)),
     ForeachStep(Leaf("custom", "y", "present", Absent, ObjectSchema, ObjectSchema)),
     ParallelStep(<<Leaf("step", "p", "present", Absent, ObjectSchema, ObjectSchema),
                    Leaf("custom", "z", "present", Absent, ObjectSchema, ObjectSchema)>>),
     BranchStep(<<Arm(<<"handlers", "present">>,
                      <<Leaf("custom", "w", "present", Absent, ObjectSchema,
                             ObjectSchema)>>)>>),
     BranchStep(<<Arm(<<"handlers", "present">>,
                      <<Leaf("step", "c", "present", Absent, ObjectSchema,
                             ObjectSchema)>>)>>),
     BranchStep(<<Arm(<<"handlers", "present">>,
                      <<Leaf("step", "d", "present", Absent, ObjectSchema,
                             ObjectSchema)>>)>>),
     WorkflowStep("present", <<>>, FALSE)}

CompileSpecs ==
    {WorkflowSpec("wf", ObjectSchema, mode, steps) :
        mode \in {"warn", "strict"},
        steps \in SeqsUpTo(CompileUnits, MaxCompileLen) \ {<<>>}}

InitTwice ==
    /\ \E wf \in CompileSpecs : spec = wf
    /\ registry = PresentRegistry
    /\ pc = "idle"
    /\ call = Absent
    /\ issues = <<>>
    /\ calls = <<>>
    /\ thrown = Absent
    /\ warnings = <<>>
    /\ tmplValue = <<>>
    /\ tmplContext = <<>>
    /\ tmplResult = <<>>
    /\ unit = <<>>
    /\ invocation = <<>>
    /\ effects = <<>>
    /\ outcome = <<>>
    /\ second = NotCalled

SpecTwice == InitTwice /\ [][NextTwice]_vars

InitCompile == \E wf \in CompileSpecs : Start(wf, PresentRegistry)

SpecCompile == InitCompile /\ [][Next]_vars

----------------------------------------------------------------------------
(* Inputs: documents whose sequences may be empty, at the top level, in a   *)
(* branch, in a branch arm and in a parallel, also one level down.          *)

MaxParseLen == 2

ParseLeaf == Leaf("step", "a", "present", Absent, ObjectSchema, ObjectSchema)

ParseUnits ==
    {ParseLeaf,
     BranchStep(<<>>),
     BranchStep(<<Arm(<<"handlers", "present">>, <<>>)>>),
     BranchStep(<<Arm(<<"handlers", "present">>, <<ParseLeaf>>)>>),
     BranchStep(<<Arm(<<"handlers", "present">>, <<ParallelStep(<<>>)>>)>>),
     ParallelStep(<<>>),
     ParallelStep(<<ParseLeaf>>),
     ForeachStep(ParseLeaf)}

ParseDocs ==
    {WorkflowSpec("wf", ObjectSchema, mode, steps) :
        mode \in {"warn", "strict"},
        steps \in SeqsUpTo(ParseUnits, MaxParseLen)}

InitParse ==
    /\ \E doc \in ParseDocs : spec = doc
    /\ registry = PresentRegistry
    /\ pc = "raw"
    /\ call = Absent
    /\ issues = <<>>
    /\ calls = <<>>
    /\ thrown = Absent
    /\ warnings = <<>>
    /\ tmplValue = <<>>
    /\ tmplContext = <<>>
    /\ tmplResult = <<>>
    /\ NotRunning

SpecParse == InitParse /\ [][NextParse]_vars

----------------------------------------------------------------------------
(* Template resolution (templating).  A JavaScript value is a record:       *)
(*   t   typeof-like tag: "undefined", "null", "string", "number",          *)
(*       "object", "array", "function"                                      *)
(*   s   the text of a string, or the String() text of a number or function *)
(*   f   the own enumerable properties of an object, or the elements of an  *)
(*       array keyed "0", "1", ..., as a sequence of [k, v]; for a "proxy"  *)
(*       (a Proxy whose get trap answers every property) what the trap      *)
(*       gives for each property it does not answer with undefined          *)
(* Template strings and path expressions are real strings, scanned and      *)
(* split as the code does.                                                  *)

Undefined == [t |-> "undefined", s |-> "", f |-> <<>>]

Null == [t |-> "null", s |-> "", f |-> <<>>]

Str(text) == [t |-> "string", s |-> text, f |-> <<>>]

Num(text) == [t |-> "number", s |-> text, f |-> <<>>]

Fn(name) ==
    [t |-> "function", s |-> "function " \o name \o "() { [native code] }",
     f |-> <<>>]

Field(key, value) == [k |-> key, v |-> value]

Obj(fields) == [t |-> "object", s |-> "", f |-> fields]

Arr(items) ==
    [t |-> "array", s |-> "",
     f |-> [i \in 1..Len(items) |-> Field(ToString(i - 1), items[i])]]

Char(s, i) == SubSeq(s, i, i)

\* the first position >= i of s that holds character c, or 0
RECURSIVE IndexOfFrom(_, _, _)
IndexOfFrom(s, c, i) ==
    IF i > Len(s) THEN 0
    ELSE IF Char(s, i) = c THEN i
    ELSE IndexOfFrom(s, c, i + 1)

\* s.slice(start - 1).split(".")
RECURSIVE SplitFrom(_, _)
SplitFrom(s, start) ==
    LET dot == IndexOfFrom(s, ".", start) IN
    IF dot = 0 THEN <<SubSeq(s, start, Len(s))>>
    ELSE <<SubSeq(s, start, dot - 1)>> \o SplitFrom(s, dot + 1)

Split(s) == SplitFrom(s, 1)

WhiteSpace == {" ", "\t", "\n"}

RECURSIVE TrimStart(_)
TrimStart(s) ==
    IF Len(s) > 0 /\ Char(s, 1) \in WhiteSpace
    THEN TrimStart(SubSeq(s, 2, Len(s))) ELSE s

RECURSIVE TrimEnd(_)
TrimEnd(s) ==
    IF Len(s) > 0 /\ Char(s, Len(s)) \in WhiteSpace
    THEN TrimEnd(SubSeq(s, 1, Len(s) - 1)) ELSE s

Trim(s) == TrimEnd(TrimStart(s))

\* the methods an object inherits from Object.prototype
ObjectPrototypeMethods ==
    {"toString", "toLocaleString", "valueOf", "hasOwnProperty",
     "isPrototypeOf", "propertyIsEnumerable"}

\* (current as Record<string, unknown>)[part]: an own property, else what
\* the prototype chain gives, else undefined
PropertyOf(current, part) ==
    LET own == SelectIdx(current.f, LAMBDA e : e.k = part) IN
    IF own # {} THEN current.f[CHOOSE i \in own : TRUE].v
    ELSE IF current.t = "proxy" THEN Undefined
    ELSE IF current.t = "array" /\ part = "length"
        THEN Num(ToString(Len(current.f)))
    ELSE IF part = "constructor"
        THEN Fn(IF current.t = "array" THEN "Array" ELSE "Object")
    ELSE IF part \in ObjectPrototypeMethods THEN Fn(part)
    ELSE Undefined

\* the loop of getPathValue over the parts still to look up
RECURSIVE getPathValueWalk(_, _)
getPathValueWalk(current, parts) ==
    IF parts = <<>> THEN current
    ELSE IF current.t \notin {"object", "array", "proxy"} THEN Undefined
    ELSE LET value == PropertyOf(current, Head(parts)) IN
         IF value.t = "undefined" THEN Undefined
         ELSE getPathValueWalk(value, Tail(parts))

getPathValue(source, path) ==
    IF path = "" THEN source ELSE getPathValueWalk(source, Split(path))

\* String(value)
RECURSIVE StringOf(_)
StringOf(value) ==
    CASE value.t = "null" -> "null"
      [] value.t = "undefined" -> "undefined"
      [] value.t = "object" -> "[object Object]"
      [] value.t = "array" ->
           LET RECURSIVE joined(_)
               joined(i) ==
                   IF i > Len(value.f) THEN ""
                   ELSE (IF i > 1 THEN "," ELSE "")
                        \o (IF value.f[i].v.t \in {"null", "undefined"} THEN ""
                            ELSE StringOf(value.f[i].v))
                        \o joined(i + 1)
           IN  joined(1)
      [] OTHER -> value.s

TemplateContext(inputData, steps, initData, requestContext) ==
    [inputData |-> inputData, steps |-> steps, initData |-> initData,
     requestContext |-> requestContext]

\* the outcome of a call: the value returned, or the message of the Error thrown
Returned(value) == [threw |-> FALSE, error |-> Absent, value |-> value]

Thrown(message) == [threw |-> TRUE, error |-> message, value |-> Undefined]

\* the switch on the root and resolveWith, shared by both expression forms
resolveRoot(expression, context) ==
    LET parts == Split(expression)
        root == Head(parts)
        path == Dotted(Tail(parts))
        resolveWith(source) ==
            LET resolved == getPathValue(source, path) IN
            IF resolved.t = "undefined"
            THEN Thrown(Trim("Template resolution failed for " \o root \o "."
                                \o path))
            ELSE Returned(resolved)
    IN  CASE root = "input" -> resolveWith(context.inputData)
          [] root = "steps" -> resolveWith(context.steps)
          [] root = "init" -> resolveWith(context.initData)
          [] root = "requestContext" -> resolveWith(context.requestContext)
          [] OTHER -> Thrown("Unknown template root: " \o root)

\* value.replace(/\$\{([^}]+)\}/g, ...) from position i on
RECURSIVE replaceFrom(_, _, _)
replaceFrom(value, i, context) ==
    IF i > Len(value) THEN Returned(Str(""))
    ELSE
    LET close == IF i < Len(value) /\ SubSeq(value, i, i + 1) = "${"
                 THEN IndexOfFrom(value, "}", i + 2) ELSE 0
    IN  IF close > i + 2
        THEN LET resolved ==
                     resolveRoot(Trim(SubSeq(value, i + 2, close - 1)), context)
             IN  IF resolved.threw THEN resolved
                 ELSE LET rest == replaceFrom(value, close + 1, context) IN
                      IF rest.threw THEN rest
                      ELSE Returned(Str(StringOf(resolved.value) \o rest.value.s))
        ELSE LET rest == replaceFrom(value, i + 1, context) IN
             IF rest.threw THEN rest
             ELSE Returned(Str(Char(value, i) \o rest.value.s))

resolveTemplateString(value, context) == replaceFrom(value, 1, context)

normalizePathExpression(expression) ==
    LET trimmed == Trim(expression) IN
    IF StartsWith(trimmed, "$.") THEN SubSeq(trimmed, 3, Len(trimmed))
    ELSE IF StartsWith(trimmed, "$") THEN SubSeq(trimmed, 2, Len(trimmed))
    ELSE trimmed

resolvePathExpression(expression, context) ==
    resolveRoot(normalizePathExpression(expression), context)

isPathExpression(value) ==
    Len(value.f) = 1 /\ value.f[1].k \in {"$path", "$jsonPath"}

RECURSIVE resolveTemplates(_, _)
RECURSIVE resolveEntries(_, _, _, _)

\* result[key] = value on a record made with {}: the key "__proto__" reaches
\* the setter of Object.prototype and leaves no own property
assignEntry(fields, key, value) ==
    IF key = "__proto__" THEN fields ELSE <<Field(key, value)>> \o fields

\* the elements of an array (value.map) or the entries of a record (the loop
\* over Object.entries) from position i on, the first throw winning
resolveEntries(entries, i, isRecord, context) ==
    IF i > Len(entries) THEN Returned(Obj(<<>>))
    ELSE LET first == resolveTemplates(entries[i].v, context) IN
         IF first.threw THEN first
         ELSE LET rest == resolveEntries(entries, i + 1, isRecord, context) IN
              IF rest.threw THEN rest
              ELSE Returned(Obj(
                     IF isRecord
                     THEN assignEntry(rest.value.f, entries[i].k, first.value)
                     ELSE <<Field(entries[i].k, first.value)>> \o rest.value.f))

resolveTemplates(value, context) ==
    CASE value.t = "string" ->
           resolveTemplateString(value.s, context)
      [] value.t = "array" ->
           LET items == resolveEntries(value.f, 1, FALSE, context) IN
           IF items.threw THEN items
           ELSE Returned([value EXCEPT !.f = items.value.f])
      [] value.t = "object" ->
           IF isPathExpression(value)
           THEN IF value.f[1].v.t # "string"
                THEN Thrown("Path expression must be a string.")
                ELSE resolvePathExpression(value.f[1].v.s, context)
           ELSE resolveEntries(value.f, 1, TRUE, context)
      [] OTHER -> Returned(value)

NotResolved == [threw |-> FALSE, error |-> Absent, value |-> Undefined]

\* resolveTemplates(tmplValue, tmplContext), one call
ResolveTemplates ==
    /\ pc = "idle"
    /\ tmplResult' = resolveTemplates(tmplValue, tmplContext)
    /\ call' = "resolveTemplates"
    /\ pc' = "resolved"
    /\ UNCHANGED <<spec, registry, issues, calls, thrown, warnings,
                   tmplValue, tmplContext, runVars>>

----------------------------------------------------------------------------
(* Inputs of template resolution: every root with every path of PathSet,    *)
(* written in every form, against two contexts.                             *)

Roots == {"input", "steps", "init", "requestContext", "bogus"}

PathSet ==
    {<<>>, <<"a">>, <<"a", "value">>, <<"a", "missing">>,
     <<"a", "value", "x">>, <<"a", "n">>, <<"a", "n", "x">>, <<"a", "list">>,
     <<"a", "list", "0">>, <<"a", "list", "2">>, <<"a", "list", "length">>,
     <<"a", "deep", "k">>, <<"a", "deep", "k", "z">>, <<"a", "constructor">>,
     <<"a", "list", "constructor">>, <<"a", "toString">>, <<"name">>,
     <<"missing">>, <<"count">>, <<"count", "x">>, <<"user">>}

Forms ==
    {"inline", "padded", "embedded", "$path", "$path$.", "$jsonPath$",
     "$jsonPath$.", "inArray", "inRecord"}

\* the template value that asks for root.parts in the given form
Render(form, root, parts) ==
    LET expression == Dotted(<<root>> \o parts) IN
    CASE form = "inline" -> Str("${" \o expression \o "}")
      [] form = "padded" -> Str("${ " \o expression \o " }")
      [] form = "embedded" -> Str("id-${" \o expression \o "}!")
      [] form = "$path" -> Obj(<<Field("$path", Str(expression))>>)
      [] form = "$path$." -> Obj(<<Field("$path", Str("$." \o expression))>>)
      [] form = "$jsonPath$" -> Obj(<<Field("$jsonPath", Str("$" \o expression))>>)
      [] form = "$jsonPath$." ->
           Obj(<<Field("$jsonPath", Str("$." \o expression))>>)
      [] form = "inArray" -> Arr(<<Str("k"), Str("${" \o expression \o "}")>>)
      [] form = "inRecord" ->
           Obj(<<Field("q", Num("1")),
                 Field("v", Obj(<<Field("$path", Str(expression))>>))>>)

TemplateValues ==
    {Render(form, root, parts) : form \in Forms, root \in Roots, parts \in PathSet}
    \cup {Str("plain"), Str("${}"), Str("${steps.a.value"), Num("7"), Null,
          Obj(<<Field("$path", Num("1"))>>),
          Obj(<<Field("$path", Str("steps.a")), Field("other", Str("x"))>>),
          Obj(<<Field("b", Str("${steps.a.value}")), Field("a", Num("2")),
                Field("c", Arr(<<Obj(<<Field("$path", Str("steps.a.list"))>>),
                                 Null, Str("z")>>))>>),
          Obj(<<Field("__proto__", Obj(<<Field("admin", Str("yes"))>>)),
                Field("k", Str("${steps.a.value}"))>>)}

StepResults ==
    Obj(<<Field("a", Obj(<<Field("value", Str("x")),
                           Field("n", Null),
                           Field("list", Arr(<<Str("p"), Str("q")>>)),
                           Field("deep", Obj(<<Field("k", Str("v"))>>))>>))>>)

Contexts ==
    {TemplateContext(Obj(<<Field("name", Str("n")), Field("count", Num("0"))>>),
                     StepResults, Undefined, Obj(<<Field("user", Str("u"))>>)),
     TemplateContext(Str("plain"), Obj(<<>>), Obj(<<Field("name", Str("i"))>>),
                     Obj(<<>>))}

InitResolve ==
    /\ \E value \in TemplateValues, context \in Contexts :
          /\ tmplValue = value
          /\ tmplContext = context
    /\ tmplResult = NotResolved
    /\ NotRunning
    /\ spec = WorkflowSpec("wf", NoSchema, Absent, <<>>)
    /\ registry = [handlers |-> {}]
    /\ pc = "idle"
    /\ call = Absent
    /\ issues = <<>>
    /\ calls = <<>>
    /\ thrown = Absent
    /\ warnings = <<>>

SpecResolve == InitResolve /\ [][ResolveTemplates]_vars

----------------------------------------------------------------------------
(* Invocations at run time.  `unit` is what is invoked: a wrapper returned  *)
(* by resolveHandler, or the execute function of a compiled step.           *)
(* `invocation` is the ctx it is invoked with and, for a wrapper, the       *)
(* params argument.  What the agent, tool, handler or runtime answers is    *)
(* chosen by the environment and kept with the call in `effects`.           *)

Bool(text) == [t |-> "boolean", s |-> text, f |-> <<>>]

EmptyObject == Obj(<<>>)

Unit(kind, id, params, meta) ==
    [kind |-> kind, id |-> id, params |-> params, meta |-> meta]

Invocation(inputData, params, stepResults, initData, requestContext, resumeData) ==
    [inputData |-> inputData, params |-> params, stepResults |-> stepResults,
     initData |-> initData, requestContext |-> requestContext,
     resumeData |-> resumeData]

\* a call made by the invocation, with what the callee answered
Effect(op, target, args, reply) ==
    [op |-> op, target |-> target, args |-> args, reply |-> reply]

\* what an invocation did: the calls it made and how it ended
Ran(made, ended) == [effects |-> made, outcome |-> ended]

\* a ?? b
Coalesce(a, b) == IF a.t \in {"undefined", "null"} THEN b ELSE a

\* value?.key
OptionalProperty(value, key) ==
    IF value.t \in {"undefined", "null"} THEN Undefined
    ELSE PropertyOf(value, key)

\* faulty variant: the prompt is not looked at before the agent is called
agentWrapperUnchecked(handlerId, inputData, params, reply) ==
    LET resolvedInput == Coalesce(params, inputData)
        prompt == OptionalProperty(resolvedInput, "prompt")
        options == Coalesce(OptionalProperty(resolvedInput, "options"), EmptyObject)
    IN  Ran(<<Effect("agent.generate", NameOf(handlerId), <<prompt, options>>,
                     reply)>>, reply)

\* the function resolveHandler returns for agent.<name>
agentWrapper(handlerId, inputData, params, reply) ==
    LET resolvedInput == Coalesce(params, inputData)
        prompt == OptionalProperty(resolvedInput, "prompt")
        options == Coalesce(OptionalProperty(resolvedInput, "options"), EmptyObject)
    IN  IF prompt.t # "string"
        THEN Ran(<<>>, Thrown("Agent handler requires prompt for "
                                 \o Dotted(handlerId)))
        ELSE Ran(<<Effect("agent.generate", NameOf(handlerId),
                          <<prompt, options>>, reply)>>, reply)

\* ctx.getStepResult(stepId); undefined for a step without a result
getStepResult(stepResults, stepId) ==
    LET own == SelectIdx(stepResults.f, LAMBDA e : e.k = stepId) IN
    IF own = {} THEN Undefined ELSE stepResults.f[CHOOSE i \in own : TRUE].v

OwnKeys(value) == {value.f[i].k : i \in 1..Len(value.f)}

\* the get trap of the stepResults proxy: the result's `output` when it has one
unwrapOutput(result) ==
    IF result.t \notin {"object", "array"} THEN result
    ELSE IF "output" \in OwnKeys(result) THEN PropertyOf(result, "output")
    ELSE result

\* stepResultsWithMeta: `_raw` gives the results as they are, any other
\* property the unwrapped result of the step of that name
stepResultsWithMeta(stepResults) ==
    LET others == SelectSeq(stepResults.f, LAMBDA e : e.k # "_raw") IN
    [t |-> "proxy", s |-> "",
     f |-> <<Field("_raw", [t |-> "proxy", s |-> "", f |-> stepResults.f])>>
           \o [i \in 1..Len(others) |->
                  Field(others[i].k, unwrapOutput(others[i].v))]]

\* the TemplateContext execute builds from ctx
contextOf(ctx) ==
    TemplateContext(ctx.inputData, stepResultsWithMeta(ctx.stepResults),
                    ctx.initData, Coalesce(ctx.requestContext, EmptyObject))

\* !value
Falsy(value) ==
    \/ value.t \in {"undefined", "null"}
    \/ value.t = "string" /\ value.s = ""
    \/ value.t = "number" /\ value.s \in {"0", "NaN"}
    \/ value.t = "boolean" /\ value.s = "false"

\* typeof value === "object", null included
TypeofObject(value) == value.t \in {"null", "object", "array", "proxy"}

\* the function resolveHandler returns for tool.<name>
toolWrapper(handlerId, inputData, params, requestContext, reply) ==
    LET resolvedInput == Coalesce(params, inputData) IN
    IF Falsy(resolvedInput) \/ ~TypeofObject(resolvedInput)
    THEN Ran(<<>>, Thrown("Tool handler requires input object for "
                             \o Dotted(handlerId)))
    ELSE Ran(<<Effect("tool.execute", NameOf(handlerId),
                      <<resolvedInput,
                        Obj(<<Field("requestContext", requestContext)>>)>>,
                      reply)>>, reply)

\* the StepHandler resolveHandler returns, called with (ctx, params)
runHandler(handlerId, ctx, params, reply) ==
    IF Namespace(handlerId) = "agent"
    THEN agentWrapper(handlerId, ctx.inputData, params, reply)
    ELSE IF Namespace(handlerId) = "tool"
    THEN toolWrapper(handlerId, ctx.inputData, params, ctx.requestContext, reply)
    ELSE Ran(<<>>, reply)

\* faulty variant: the handler is handed the params as declared
executeLeafUnresolved(handlerId, declared, ctx, reply) ==
    LET params == Coalesce(declared, EmptyObject)
        inner == runHandler(handlerId, ctx, params, reply)
    IN  Ran(<<Effect("handler", Dotted(handlerId), <<params>>, inner.outcome)>>
            \o inner.effects, inner.outcome)

\* the execute function buildStep gives to createStep
executeLeaf(handlerId, declared, ctx, reply) ==
    LET resolvedParams ==
            resolveTemplates(Coalesce(declared, EmptyObject), contextOf(ctx))
    IN  IF resolvedParams.threw THEN Ran(<<>>, resolvedParams)
        ELSE LET inner == runHandler(handlerId, ctx, resolvedParams.value, reply)
             IN  Ran(<<Effect("handler", Dotted(handlerId),
                              <<resolvedParams.value>>, inner.outcome)>>
                     \o inner.effects, inner.outcome)

\* the `steps` of a condition's context: every property is the result
\* ctx.getStepResult gives, as it is
conditionStepResults(stepResults) ==
    [t |-> "proxy", s |-> "", f |-> stepResults.f]

\* the TemplateContext condFn builds from ctx
conditionContextOf(ctx) ==
    TemplateContext(ctx.inputData, conditionStepResults(ctx.stepResults),
                    ctx.initData, Coalesce(ctx.requestContext, EmptyObject))

\* condFn of a branch arm, a dowhile or a dountil: the params resolved, the
\* condition handler called, Boolean(result) returned
evaluateCondition(handlerId, declared, ctx, reply) ==
    LET resolvedParams == resolveTemplates(declared, conditionContextOf(ctx))
    IN  IF resolvedParams.threw THEN Ran(<<>>, resolvedParams)
        ELSE LET inner == runHandler(handlerId, ctx, resolvedParams.value, reply)
             IN  Ran(<<Effect("handler", Dotted(handlerId),
                              <<resolvedParams.value>>, inner.outcome)>>
                     \o inner.effects,
                     IF inner.outcome.threw THEN inner.outcome
                     ELSE Returned(Bool(IF Falsy(inner.outcome.value)
                                        THEN "false" ELSE "true")))

\* the context a bail step resolves against: the input data alone
bailContext(inputData) ==
    TemplateContext(inputData, EmptyObject, EmptyObject, EmptyObject)

NotBailed == Obj(<<Field("bailed", Bool("false")), Field("payload", Null)>>)

\* the execute function of a compiled bail step; `if (bailWhen)` and
\* `if (shouldBail)` are tests of truthiness
executeBail(bailWhen, bailPayload, inputData, reply) ==
    LET conditionResult ==
            IF Falsy(bailWhen) THEN Returned(Obj(<<Field("condition", Bool("true"))>>))
            ELSE resolveTemplates(Obj(<<Field("condition", bailWhen)>>),
                                  bailContext(inputData))
    IN  IF conditionResult.threw THEN Ran(<<>>, conditionResult)
        ELSE IF Falsy(PropertyOf(conditionResult.value, "condition"))
        THEN Ran(<<>>, Returned(NotBailed))
        ELSE LET resolvedPayload ==
                     resolveTemplates(bailPayload, bailContext(inputData))
             IN  IF resolvedPayload.threw THEN Ran(<<>>, resolvedPayload)
                 ELSE Ran(<<Effect("bail", "", <<resolvedPayload.value>>, reply)>>,
                          reply)

\* a || b
Either(a, b) == IF Falsy(a) THEN b ELSE a

\* faulty variant: the unit returns without asking the runtime to pause
executeSuspendSilent(step, resumeData, suspendId, timestamp, reply) ==
    IF ~Falsy(resumeData)
    THEN Ran(<<>>, Returned(Obj(<<Field("resumed", Bool("true")),
                                  Field("data", resumeData),
                                  Field("suspendId", Str(suspendId))>>)))
    ELSE Ran(<<>>, Returned(Obj(<<Field("resumed", Bool("false")),
                                  Field("suspendId", Str(suspendId))>>)))

\* the execute function of a compiled suspend step; suspendId is what
\* crypto.randomUUID() gave, timestamp what new Date().toISOString() gave
executeSuspend(step, resumeData, suspendId, timestamp, reply) ==
    IF ~Falsy(resumeData)
    THEN Ran(<<>>, Returned(Obj(<<Field("resumed", Bool("true")),
                                  Field("data", resumeData),
                                  Field("suspendId", Str(suspendId))>>)))
    ELSE Ran(<<Effect("suspend", "",
                      <<Obj(<<Field("suspendId", Str(suspendId)),
                              Field("prompt", PropertyOf(step, "prompt")),
                              Field("waitFor", PropertyOf(step, "waitFor")),
                              Field("timeout", PropertyOf(step, "timeout")),
                              Field("resumeSchema", PropertyOf(step, "resumeSchema")),
                              Field("status", Str("suspended")),
                              Field("timestamp", Str(timestamp))>>)>>,
                      reply)>>,
             IF reply.threw THEN reply
             ELSE Returned(Obj(<<Field("resumed", Bool("false")),
                                 Field("suspendId", Str(suspendId))>>)))

\* the execute function of a compiled humanInput step
executeHumanInput(step, resumeData, requestId, reply) ==
    IF ~Falsy(resumeData)
    THEN Ran(<<>>, Returned(Obj(<<Field("answer", resumeData),
                                  Field("requestId",
                                        Either(OptionalProperty(resumeData, "requestId"),
                                               Str(requestId)))>>)))
    ELSE Ran(<<Effect("suspend", "",
                      <<Obj(<<Field("requestId", Str(requestId)),
                              Field("prompt", PropertyOf(step, "prompt")),
                              Field("inputType", PropertyOf(step, "inputType")),
                              Field("options", PropertyOf(step, "options")),
                              Field("timeout", PropertyOf(step, "timeout")),
                              Field("status", Str("waiting_for_human_input"))>>)>>,
                      reply)>>,
             IF reply.threw THEN reply
             ELSE Returned(Obj(<<Field("answer", Undefined),
                                 Field("requestId", Str(requestId))>>)))

\* the execute function of a compiled resume step
executeResume(step, inputData) ==
    Ran(<<>>, Returned(Obj(<<Field("resumed", Bool("true")),
                             Field("data", Either(OptionalProperty(inputData, "data"),
                                                  PropertyOf(step, "data")))>>)))

\* what a callee may answer: a value, or a failure of its own
Replies ==
    {Returned(Obj(<<Field("text", Str("ok"))>>)), Returned(Undefined),
     Thrown("callee failed")}

\* handler(ctx, params) for the wrapper of agent.<name>
InvokeAgentWrapper ==
    /\ pc = "idle"
    /\ unit.kind = "agent"
    /\ resolveHandler(registry, unit.id) = Absent
    /\ \E reply \in Replies :
          LET ran == agentWrapper(unit.id, invocation.inputData,
                                  invocation.params, reply)
          IN  /\ effects' = ran.effects
              /\ outcome' = ran.outcome
    /\ call' = "invoke"
    /\ pc' = "returned"
    /\ UNCHANGED <<spec, registry, issues, calls, thrown, warnings,
                   tmplValue, tmplContext, tmplResult, unit, invocation,
                   second>>

\* handler(ctx, params) for the wrapper of tool.<name>
InvokeToolWrapper ==
    /\ pc = "idle"
    /\ unit.kind = "tool"
    /\ resolveHandler(registry, unit.id) = Absent
    /\ \E reply \in Replies :
          LET ran == toolWrapper(unit.id, invocation.inputData,
                                 invocation.params, invocation.requestContext,
                                 reply)
          IN  /\ effects' = ran.effects
              /\ outcome' = ran.outcome
    /\ call' = "invoke"
    /\ pc' = "returned"
    /\ UNCHANGED <<spec, registry, issues, calls, thrown, warnings,
                   tmplValue, tmplContext, tmplResult, unit, invocation,
                   second>>

\* step.execute(ctx) for a compiled leaf step
ExecuteLeaf ==
    /\ pc = "idle"
    /\ unit.kind = "leaf"
    /\ resolveHandler(registry, unit.id) = Absent
    /\ \E reply \in Replies :
          LET ran == executeLeaf(unit.id, unit.params, invocation, reply)
          IN  /\ effects' = ran.effects
              /\ outcome' = ran.outcome
    /\ call' = "execute"
    /\ pc' = "returned"
    /\ UNCHANGED <<spec, registry, issues, calls, thrown, warnings,
                   tmplValue, tmplContext, tmplResult, unit, invocation,
                   second>>

\* condFn(ctx), called by the runtime for a branch arm or after a loop body
EvaluateCondition ==
    /\ pc = "idle"
    /\ unit.kind = "condition"
    /\ resolveHandler(registry, unit.id) = Absent
    /\ \E reply \in Replies :
          LET ran == evaluateCondition(unit.id, unit.params, invocation, reply)
          IN  /\ effects' = ran.effects
              /\ outcome' = ran.outcome
    /\ call' = "evaluate"
    /\ pc' = "returned"
    /\ UNCHANGED <<spec, registry, issues, calls, thrown, warnings,
                   tmplValue, tmplContext, tmplResult, unit, invocation,
                   second>>

\* step.execute(ctx) for a compiled bail step
ExecuteBail ==
    /\ pc = "idle"
    /\ unit.kind = "bail"
    /\ \E reply \in Replies :
          LET ran == executeBail(unit.meta, unit.params, invocation.inputData,
                                 reply)
          IN  /\ effects' = ran.effects
              /\ outcome' = ran.outcome
    /\ call' = "execute"
    /\ pc' = "returned"
    /\ UNCHANGED <<spec, registry, issues, calls, thrown, warnings,
                   tmplValue, tmplContext, tmplResult, unit, invocation,
                   second>>

\* what crypto.randomUUID() and new Date().toISOString() may give
\* what the resume call may supply; undefined on the first invocation
ResumeDatas ==
    {Undefined, Obj(<<Field("approved", Bool("true"))>>), EmptyObject,
     Obj(<<Field("requestId", Str("r-9"))>>), Str("yes"), Str(""),
     Bool("false"), Num("0"), Null}

Uuids == {"uuid-1", "uuid-2"}

Timestamps == {"2026-01-01T00:00:00.000Z"}

\* step.execute(ctx) for a compiled suspend step
ExecuteSuspend ==
    /\ pc = "idle"
    /\ unit.kind = "suspend"
    /\ \E reply \in Replies, suspendId \in Uuids, timestamp \in Timestamps :
          LET ran == executeSuspend(unit.meta, invocation.resumeData, suspendId,
                                    timestamp, reply)
          IN  /\ effects' = ran.effects
              /\ outcome' = ran.outcome
    /\ call' = "execute"
    /\ pc' = "returned"
    /\ UNCHANGED <<spec, registry, issues, calls, thrown, warnings,
                   tmplValue, tmplContext, tmplResult, unit, invocation,
                   second>>

\* step.execute(ctx) for a compiled humanInput step
ExecuteHumanInput ==
    /\ pc = "idle"
    /\ unit.kind = "humanInput"
    /\ \E reply \in Replies, requestId \in Uuids :
          LET ran == executeHumanInput(unit.meta, invocation.resumeData,
                                       requestId, reply)
          IN  /\ effects' = ran.effects
              /\ outcome' = ran.outcome
    /\ call' = "execute"
    /\ pc' = "returned"
    /\ UNCHANGED <<spec, registry, issues, calls, thrown, warnings,
                   tmplValue, tmplContext, tmplResult, unit, invocation,
                   second>>

\* step.execute(ctx) for a compiled resume step
ExecuteResume ==
    /\ pc = "idle"
    /\ unit.kind = "resume"
    /\ LET ran == executeResume(unit.meta, invocation.inputData)
       IN  /\ effects' = ran.effects
           /\ outcome' = ran.outcome
    /\ call' = "execute"
    /\ pc' = "returned"
    /\ UNCHANGED <<spec, registry, issues, calls, thrown, warnings,
                   tmplValue, tmplContext, tmplResult, unit, invocation,
                   second>>

\* one invocation of one unit
\* the runtime calls execute again once the paused step is resumed: a
\* further randomUUID() and, for suspend, a further reading of the clock
ExecuteResumed ==
    /\ pc = "returned"
    /\ unit.kind \in {"suspend", "humanInput"}
    /\ Falsy(invocation.resumeData)
    /\ Len(effects) = 1
    /\ ~effects[1].reply.threw
    /\ \E resumeData \in ResumeDatas, reply \in Replies, id \in Uuids,
          timestamp \in Timestamps :
          second' = [resumeData |-> resumeData,
                     randomUUID |-> id,
                     ran |-> IF unit.kind = "suspend"
                             THEN executeSuspend(unit.meta, resumeData, id,
                                                 timestamp, reply)
                             ELSE executeHumanInput(unit.meta, resumeData, id,
                                                    reply)]
    /\ pc' = "resumed"
    /\ UNCHANGED <<spec, registry, call, issues, calls, thrown, warnings,
                   tmplValue, tmplContext, tmplResult, unit, invocation,
                   effects, outcome>>

\* a condition is evaluated
NextCondition == EvaluateCondition

\* a step pauses and is resumed
NextResume ==
    \/ ExecuteSuspend
    \/ ExecuteHumanInput
    \/ ExecuteResumed

NextRun ==
    \/ InvokeAgentWrapper
    \/ InvokeToolWrapper
    \/ ExecuteLeaf
    \/ ExecuteBail
    \/ ExecuteSuspend
    \/ ExecuteHumanInput
    \/ ExecuteResume

----------------------------------------------------------------------------
(* Inputs of the invocations *)

RunRegistry ==
    [handlers |-> {"act"}, agents |-> {"support"}, tools |-> {"search"}]

WrapperParams ==
    {Undefined, Null, EmptyObject, Str("bad"), Str(""), Num("0"), Bool("false"),
     Arr(<<Str("x")>>),
     Obj(<<Field("prompt", Str("hi"))>>),
     Obj(<<Field("prompt", Str("hi")),
           Field("options", Obj(<<Field("temperature", Num("0"))>>))>>),
     Obj(<<Field("prompt", Str("hi")), Field("options", Null)>>),
     Obj(<<Field("prompt", Num("5"))>>),
     Obj(<<Field("options", EmptyObject)>>)}

WrapperInputs ==
    {Undefined, Str("plain"), Obj(<<Field("prompt", Str("from input"))>>),
     Obj(<<Field("q", Str("x"))>>)}

WrapperRuns ==
    {[unit |-> Unit(kind, <<kind, name>>, Undefined, Undefined),
      invocation |-> Invocation(inputData, params, EmptyObject, Undefined,
                                Obj(<<Field("user", Str("u"))>>), Undefined)] :
        kind \in {"agent", "tool"}, name \in {"support", "search"},
        inputData \in WrapperInputs, params \in WrapperParams}

LeafParams ==
    {Undefined, EmptyObject,
     Obj(<<Field("msg", Str("Hello ${input.name}"))>>),
     Obj(<<Field("v", Obj(<<Field("$path", Str("steps.a.value"))>>)),
           Field("n", Num("1"))>>),
     Obj(<<Field("raw", Obj(<<Field("$path", Str("steps._raw.a.output"))>>))>>),
     Obj(<<Field("m", Str("${steps.zz.value}")), Field("n", Num("1"))>>),
     Obj(<<Field("c", Str("${steps.constructor}"))>>),
     Obj(<<Field("prompt", Str("${steps.b.text}"))>>),
     Obj(<<Field("k", Str("${init.k}")),
           Field("u", Str("${requestContext.user}"))>>)}

LeafStepResults ==
    {EmptyObject,
     Obj(<<Field("a", Obj(<<Field("status", Str("success")),
                            Field("output", Obj(<<Field("value", Str("x"))>>))>>)),
           Field("b", Obj(<<Field("text", Str("hi"))>>))>>)}

LeafRuns ==
    {[unit |-> Unit("leaf", handlerId, params, Undefined),
      invocation |-> Invocation(Obj(<<Field("name", Str("n"))>>), Undefined,
                                stepResults, initData, requestContext,
                                Undefined)] :
        handlerId \in {<<"handlers", "act">>, <<"agent", "support">>,
                       <<"tool", "search">>},
        params \in LeafParams, stepResults \in LeafStepResults,
        initData \in {Undefined, Obj(<<Field("k", Str("i"))>>)},
        requestContext \in {Undefined, Obj(<<Field("user", Str("u"))>>)}}

\* params of a condition; meta names the step the condition belongs to
ConditionParams ==
    {Undefined,
     Obj(<<Field("limit", Num("3"))>>),
     Obj(<<Field("last", Obj(<<Field("$path", Str("steps.a"))>>))>>),
     Obj(<<Field("text", Str("${steps.b.text}"))>>),
     Obj(<<Field("v", Obj(<<Field("$path", Str("steps.a.value"))>>))>>),
     Obj(<<Field("name", Str("${input.name}"))>>)}

ConditionRuns ==
    {[unit |-> Unit("condition", <<"handlers", "act">>, params, Str(owner)),
      invocation |-> Invocation(Obj(<<Field("name", Str("n"))>>), Undefined,
                                stepResults, Undefined, requestContext,
                                Undefined)] :
        params \in ConditionParams, owner \in {"branch", "dowhile", "dountil"},
        stepResults \in LeafStepResults,
        requestContext \in {Undefined, Obj(<<Field("user", Str("u"))>>)}}

BailConditions ==
    {Undefined, Str("${input.done}"), Str("${input.reason}"),
     Str("${steps.review.approved}")}

BailPayloads ==
    {Obj(<<Field("reason", Str("stopped"))>>),
     Obj(<<Field("reason", Str("because ${input.reason}"))>>),
     Obj(<<Field("reason", Str("${input.missing}"))>>)}

BailInputs ==
    {Obj(<<Field("done", Bool("true")), Field("reason", Str(""))>>),
     Obj(<<Field("done", Bool("false")), Field("reason", Str("r"))>>)}

BailRuns ==
    {[unit |-> Unit("bail", <<"bail", "stop">>, bailPayload, bailWhen),
      invocation |-> Invocation(inputData, Undefined, EmptyObject, Undefined,
                                Undefined, Undefined)] :
        bailWhen \in BailConditions, bailPayload \in BailPayloads,
        inputData \in BailInputs}

SuspendSteps ==
    {Obj(<<Field("prompt", Str("Approve?")), Field("waitFor", Str("approval")),
           Field("timeout", Num("60000")),
           Field("resumeSchema", Obj(<<Field("type", Str("object"))>>))>>),
     EmptyObject}

HumanInputSteps ==
    {Obj(<<Field("prompt", Str("Which one?")), Field("inputType", Str("select")),
           Field("options", Arr(<<Str("a"), Str("b")>>)),
           Field("timeout", Num("60000"))>>),
     Obj(<<Field("prompt", Str("Name?")), Field("inputType", Str("text"))>>)}

ResumeSteps ==
    {Obj(<<Field("data", Obj(<<Field("approved", Bool("true"))>>))>>),
     EmptyObject}

ResumeInputs ==
    {Undefined, Obj(<<Field("data", Obj(<<Field("n", Num("1"))>>))>>),
     Obj(<<Field("name", Str("n"))>>)}

PauseRuns ==
    {[unit |-> Unit("suspend", <<"suspend", "gate">>, Undefined, step),
      invocation |-> Invocation(Undefined, Undefined, EmptyObject, Undefined,
                                Undefined, resumeData)] :
        step \in SuspendSteps, resumeData \in ResumeDatas}
    \cup
    {[unit |-> Unit("humanInput", <<"humanInput", "ask">>, Undefined, step),
      invocation |-> Invocation(Undefined, Undefined, EmptyObject, Undefined,
                                Undefined, resumeData)] :
        step \in HumanInputSteps, resumeData \in ResumeDatas}
    \cup
    {[unit |-> Unit("resume", <<"resume", "go">>, Undefined, step),
      invocation |-> Invocation(inputData, Undefined, EmptyObject, Undefined,
                                Undefined, Undefined)] :
        step \in ResumeSteps, inputData \in ResumeInputs}

\* the invocations explored
Runs == WrapperRuns \cup LeafRuns \cup BailRuns \cup PauseRuns

InitRunOver(runs) ==
    /\ \E run \in runs :
          /\ unit = run.unit
          /\ invocation = run.invocation
    /\ effects = <<>>
    /\ outcome = NotResolved
    /\ spec = WorkflowSpec("wf", NoSchema, Absent, <<>>)
    /\ registry = RunRegistry
    /\ pc = "idle"
    /\ call = Absent
    /\ issues = <<>>
    /\ calls = <<>>
    /\ thrown = Absent
    /\ warnings = <<>>
    /\ tmplValue = <<>>
    /\ tmplContext = <<>>
    /\ tmplResult = <<>>
    /\ second = <<>>

InitRun == InitRunOver(Runs)

SpecRun == InitRun /\ [][NextRun]_vars

InitCondition == InitRunOver(ConditionRuns)

SpecCondition == InitCondition /\ [][NextCondition]_vars

\* the runs of the steps that can pause
PausingRuns == {run \in PauseRuns : run.unit.kind \in {"suspend", "humanInput"}}

InitResume == InitRunOver(PausingRuns)

SpecResume == InitResume /\ [][NextResume]_vars

----------------------------------------------------------------------------
(* Helpers of the properties *)

\* every id of the step tree, one entry per step that carries it
RECURSIVE IdList(_)
IdList(steps) ==
    Concat([i \in 1..Len(steps) |->
        (IF HasId(steps[i]) THEN <<steps[i].id>> ELSE <<>>)
        \o IdList(steps[i].steps)
        \o Concat([b \in 1..Len(steps[i].branches) |->
                      IdList(steps[i].branches[b].steps)])])

Occurrences(id) == Cardinality(SelectIdx(IdList(spec.steps), LAMBDA x : x = id))

IsDuplicateIssue(issue, id) ==
    StartsWith(issue.message, "Duplicate step id '" \o id \o "' ")

DuplicateIssues(id) == SelectSeq(issues, LAMBDA i : IsDuplicateIssue(i, id))

Validated == pc = "validated" \/ (call = "compile" /\ pc # "idle")

\* the visits of the walk that carry `id`, in visiting order
VisitsOf(id) ==
    SelectSeq(visitSteps(spec.steps, spec.id \o ".steps"),
              LAMBDA v : HasId(v.step) /\ v.step.id = id)

----------------------------------------------------------------------------
(* C1: compileWorkflow validates before it builds.  Whenever the validator  *)
(* reports an error for (spec, registry), the compile call never gets past  *)
(* the check: it throws "Schema validation failed" and, when it has thrown, *)
(* no runtime graph primitive has been called.                              *)

C1_ValidatesBeforeBuild ==
    (call = "compile" /\ pc # "idle"
        /\ HasErrors(validateWorkflowSchemas(spec, TRUE, registry)))
    => /\ pc \in {"checked", "failed"}
       /\ calls = <<>>
       /\ pc = "failed" =>
            StartsWith(thrown, "Schema validation failed:\n")

C1_Witness ==
    /\ call = "compile" /\ pc = "failed"
    /\ HasErrors(issues)
    /\ calls = <<>>
    /\ StartsWith(thrown, "Schema validation failed:\n")

----------------------------------------------------------------------------
(* C2 as stated: every id carried by two or more steps yields exactly one   *)
(* duplicate-id issue.                                                      *)

C2_ExactlyOneIssuePerId ==
    Validated =>
        \A id \in StepIds :
            Occurrences(id) >= 2 => Len(DuplicateIssues(id)) = 1

(* C2 as amended: an id carried by n >= 2 steps yields n - 1 duplicate-id   *)
(* issues, one for each occurrence after the first in walk order; each is   *)
(* an error in both modes, its path is that occurrence and its message      *)
(* names the path of the first occurrence.                                  *)

C2_OneIssuePerLaterOccurrence ==
    Validated =>
        \A id \in StepIds :
            LET occ == VisitsOf(id) IN
            /\ Len(occ) = Occurrences(id)
            /\ DuplicateIssues(id) =
                  [j \in 1..(Len(occ) - 1) |->
                      Issue(occ[j + 1].path \o ".id", "error",
                            MsgDuplicate(id, occ[1].path \o ".id"))]

C2_Witness ==
    /\ pc = "validated"
    /\ spec.schemaCompatibility = "strict"
    /\ \E id \in StepIds :
          /\ Occurrences(id) = 3
          /\ Len(DuplicateIssues(id)) = 2
          /\ \E i \in 1..Len(spec.steps) : spec.steps[i].type = "branch"

----------------------------------------------------------------------------
(* C3: one global id namespace.  The duplicate-id errors depend only on how *)
(* often an id occurs in the whole tree, not on the scopes the occurrences  *)
(* sit in: n occurrences give n - 1 errors whether they are siblings of one *)
(* sequence or spread over branch arms, parallel members and loop bodies.   *)

C3_GlobalNamespace ==
    Validated =>
        \A id \in StepIds :
            /\ Len(DuplicateIssues(id)) =
                  (IF Occurrences(id) = 0 THEN 0 ELSE Occurrences(id) - 1)
            /\ \A k \in 1..Len(DuplicateIssues(id)) :
                  DuplicateIssues(id)[k].severity = "error"

\* the same id in two arms of one branch, and nowhere twice in one sequence
C3_Witness ==
    /\ pc = "validated"
    /\ Len(spec.steps) = 1
    /\ spec.steps[1].type = "branch"
    /\ Len(spec.steps[1].branches) = 2
    /\ \E id \in StepIds :
          /\ \A b \in 1..2 :
                /\ Len(spec.steps[1].branches[b].steps) = 1
                /\ spec.steps[1].branches[b].steps[1].id = id
          /\ Len(DuplicateIssues(id)) = 1

----------------------------------------------------------------------------
(* Helpers of the schema properties *)

IsLeaf(step) == step.type \in LeafTypes

TopPath(i) == spec.id \o ".steps." \o ToString(i - 1)

IssuesAt(iss, path) == SelectSeq(iss, LAMBDA i : i.path = path)

WithMode(wf, mode) == [wf EXCEPT !.schemaCompatibility = mode]

\* the validator's result for the spec of this state under another mode
RunInMode(mode) ==
    validateWorkflowSchemas(WithMode(spec, mode), call # "validate", registry)

WarnMode == spec.schemaCompatibility \in {Absent, "warn"}

SeverityOfMode == IF WarnMode THEN "warning" ELSE "error"

DeclaredTypes(schema) ==
    IF schema.kind = "obj" THEN Range(schema.ty.names) ELSE {}

\* both sides declare types and some consumer type is not a producer type
TypesIncompatible(out, in) ==
    /\ DeclaredTypes(out) # {}
    /\ DeclaredTypes(in) # {}
    /\ \E t \in DeclaredTypes(in) : t \notin DeclaredTypes(out)

RequiredKeys(schema) ==
    IF schema.kind = "obj" THEN Range(schema.required) ELSE {}

DeclaredKeys(schema) ==
    IF schema.kind = "obj" /\ schema.props.has THEN schema.props.keys ELSE {}

AdjacentLeaves(i) ==
    i \in 2..Len(spec.steps) /\ IsLeaf(spec.steps[i - 1]) /\ IsLeaf(spec.steps[i])

----------------------------------------------------------------------------
(* C4: mode sensitivity.  Validating the same specification in warn mode,   *)
(* with the option absent and in strict mode gives issue lists with the     *)
(* same paths and messages in the same order; absent means warn; and every  *)
(* adjacent pair with incompatible declared types has its type-mismatch     *)
(* issue, a warning in warn mode and an error in strict mode.               *)

C4_ModeChangesOnlySeverity ==
    Validated =>
        LET warn == RunInMode("warn")
            strict == RunInMode("strict")
        IN  /\ RunInMode(Absent) = warn
            /\ issues = (IF WarnMode THEN warn ELSE strict)
            /\ Len(strict) = Len(warn)
            /\ \A k \in 1..Len(warn) :
                  /\ strict[k].path = warn[k].path
                  /\ strict[k].message = warn[k].message
            /\ \A i \in 2..Len(spec.steps) :
                  (AdjacentLeaves(i)
                     /\ TypesIncompatible(spec.steps[i - 1].outputSchema,
                                          spec.steps[i].inputSchema))
                  => LET message ==
                            MsgTypeMismatch(spec.steps[i - 1].outputSchema.ty,
                                            spec.steps[i].inputSchema.ty)
                     IN  \E k \in 1..Len(warn) :
                            /\ warn[k] = Issue(TopPath(i), "warning", message)
                            /\ strict[k] = Issue(TopPath(i), "error", message)

C4_Witness ==
    /\ pc = "validated"
    /\ spec.schemaCompatibility = "strict"
    /\ AdjacentLeaves(2)
    /\ TypesIncompatible(spec.steps[1].outputSchema, spec.steps[2].inputSchema)
    /\ \E k \in 1..Len(issues) :
          /\ issues[k].path = TopPath(2)
          /\ issues[k].severity = "error"
          /\ StartsWith(issues[k].message, "Schema type mismatch.")

----------------------------------------------------------------------------
(* C5 *)

UniqueIds ==
    LET ids == IdList(spec.steps) IN
    \A i, j \in 1..Len(ids) : i # j => ids[i] # ids[j]

\* each step's output schema declares the keys the next step's input requires
RequiredKeysDeclared ==
    \A i \in 2..Len(spec.steps) :
        RequiredKeys(spec.steps[i].inputSchema)
            \subseteq DeclaredKeys(spec.steps[i - 1].outputSchema)

(* C5 as stated: without a registry, unique ids and declared required keys  *)
(* leave no error, in either mode.                                          *)

C5_NoErrorWhenRequiredKeysDeclared ==
    (pc = "validated" /\ call = "validate" /\ UniqueIds /\ RequiredKeysDeclared)
    => ~HasErrors(issues)

RECURSIVE TypesAndEnumsCompatible(_, _)
TypesAndEnumsCompatible(out, in) ==
    IF out.kind # "obj" \/ in.kind # "obj" THEN TRUE
    ELSE /\ ~TypesIncompatible(out, in)
         /\ (out.enum.has /\ in.enum.has) => in.enum.vals \subseteq out.enum.vals
         /\ (out.ty = TStr("array") /\ in.ty = TStr("array")
                /\ out.items.kind # "undef" /\ in.items.kind # "undef")
            => TypesAndEnumsCompatible(out.items, in.items)

\* the workflow input against the first step, and each step against the next
AllPairsCompatible ==
    \A i \in 1..Len(spec.steps) :
        TypesAndEnumsCompatible(
            IF i = 1 THEN spec.inputSchema ELSE spec.steps[i - 1].outputSchema,
            spec.steps[i].inputSchema)

(* C5 as amended: for a sequence of leaf steps with unique ids whose        *)
(* outputs declare the keys the next input requires, validated without a    *)
(* registry, no error is returned in warn mode; in strict mode none is      *)
(* returned when, in addition, the declared types and enums of the workflow *)
(* input and the first step, and of each step and the next, are compatible  *)
(* (array item schemas included).                                           *)

C5_NoErrorInWarnOrWhenCompatible ==
    (pc = "validated" /\ call = "validate" /\ UniqueIds /\ RequiredKeysDeclared
        /\ \A i \in 1..Len(spec.steps) : IsLeaf(spec.steps[i])
        /\ (WarnMode \/ AllPairsCompatible))
    => ~HasErrors(issues)

C5_Witness ==
    /\ pc = "validated" /\ call = "validate"
    /\ spec.schemaCompatibility = "strict"
    /\ UniqueIds /\ RequiredKeysDeclared /\ AllPairsCompatible
    /\ Len(spec.steps) = 2
    /\ IsLeaf(spec.steps[1]) /\ IsLeaf(spec.steps[2])
    /\ RequiredKeys(spec.steps[2].inputSchema) # {}
    /\ issues # <<>>
    /\ ~HasErrors(issues)

----------------------------------------------------------------------------
(* C6: for an adjacent pair whose producer output and consumer input both   *)
(* declare type "object", every required key of the consumer that the       *)
(* producer's properties lack has exactly one issue of its own, a warning   *)
(* in either mode; a key the producer declares has none; and no             *)
(* missing-key issue is ever an error.                                      *)

MissingKeyIssues(path, key) ==
    SelectSeq(issues, LAMBDA i : i.path = path /\ i.message = MsgMissingKey(key))

----------------------------------------------------------------------------
(* C7: a foreach step of the top-level sequence gets exactly one issue,     *)
(* "Foreach expects previous output to be an array schema", an error in     *)
(* strict mode and a warning in warn mode, when the shape carried to it is  *)
(* present and not array-typed, and no issue when that shape is array-typed *)
(* or opaque.                                                               *)

ArrayTyped(schema) == "array" \in DeclaredTypes(schema)

\* the shape carried to step i of the top-level sequence
RECURSIVE CarriedTo(_)
CarriedTo(i) ==
    IF i = 1 THEN spec.inputSchema
    ELSE LET before == spec.steps[i - 1] IN
         CASE IsLeaf(before) -> before.outputSchema
           [] before.type \in {"branch", "parallel"} -> NoSchema
           [] before.type \in {"map", "workflow"} -> Plain(TStr("object"))
           [] before.type \in {"sleep", "sleepUntil"} -> CarriedTo(i - 1)
           [] before.type = "foreach" ->
                IF before.steps[1].outputSchema.kind = "undef" THEN NoSchema
                ELSE ArrayOf(before.steps[1].outputSchema)
           [] OTHER -> NoSchema

C7_ForeachAfterNonArray ==
    Validated =>
        \A i \in 1..Len(spec.steps) :
            spec.steps[i].type = "foreach" =>
                IssuesAt(issues, TopPath(i)) =
                    (IF CarriedTo(i).kind # "undef" /\ ~ArrayTyped(CarriedTo(i))
                     THEN <<Issue(TopPath(i), SeverityOfMode, MsgForeach)>>
                     ELSE <<>>)

C7_Witness ==
    /\ pc = "validated"
    /\ spec.schemaCompatibility = "strict"
    /\ Len(spec.steps) = 2
    /\ IsLeaf(spec.steps[1])
    /\ spec.steps[1].outputSchema = ObjectSchema
    /\ spec.steps[2].type = "foreach"
    /\ IssuesAt(issues, TopPath(2)) = <<Issue(TopPath(2), "error", MsgForeach)>>

----------------------------------------------------------------------------
(* C8 as stated: in a map step or a sub-workflow inputMapping, an entry     *)
(* with from:'step' whose stepId is not the id of a step placed before the  *)
(* referencing step in the same sequence (no such id, an id that appears    *)
(* only later, the map step's own id, an id of another scope) has an        *)
(* error-severity issue at the entry's path.                                *)

\* the ids of the steps of `steps` placed before position i
IdsBefore(steps, i) == {steps[j].id : j \in {k \in 1..(i - 1) : HasId(steps[k])}}

HasMappings(step) ==
    step.type = "map" \/ (step.type = "workflow" /\ step.hasMapping)

\* every from:'step' entry of `steps` that names no earlier step has an error
EarlierOnly(steps, path) ==
    \A i \in 1..Len(steps) :
        HasMappings(steps[i]) =>
            \A m \in 1..Len(steps[i].mappings) :
                LET entry == steps[i].mappings[m]
                    at == path \o "." \o steps[i].type \o "." \o ToString(i - 1)
                             \o "." \o entry.key
                IN  (entry.from = "step" /\ ~entry.hasValue
                        /\ entry.stepId \notin IdsBefore(steps, i))
                    => \E k \in 1..Len(issues) :
                          /\ issues[k].path = at
                          /\ issues[k].severity = "error"

C8_StepReferenceMustBeEarlier ==
    Validated =>
        /\ EarlierOnly(spec.steps, spec.id)
        /\ \A i \in 1..Len(spec.steps) :
              \A b \in 1..Len(spec.steps[i].branches) :
                  EarlierOnly(spec.steps[i].branches[b].steps,
                              spec.id \o ".branch." \o ToString(i - 1)
                                  \o ".branches." \o ToString(b - 1) \o ".steps")

\* a map step naming the step after it is validated without an issue
C8_Witness ==
    /\ pc = "validated"
    /\ spec.steps = <<MapStep("m", <<fromStep("k", "b")>>),
                      GenericStep("b", "act", ObjectSchema, ObjectSchema)>>
    /\ issues = <<>>

----------------------------------------------------------------------------
(* C9 as stated: with a registry, every leaf step of the tree, of any       *)
(* variant, whose handler target the compiler's resolution does not find    *)
(* has an error-severity issue, and so has every branch condition handler,  *)
(* every dowhile/dountil condition handler and every workflowId that is     *)
(* missing.                                                                 *)

MissingIssueAt(path) ==
    \E k \in 1..Len(issues) :
        /\ issues[k].severity = "error"
        /\ StartsWith(issues[k].path, path)
        /\ StartsWith(issues[k].message, "Missing ")

C9_EveryMissingTargetIsAnError ==
    (pc = "validated" /\ call = "validateWithRegistry") =>
        LET visits == visitSteps(spec.steps, spec.id \o ".steps") IN
        \A k \in 1..Len(visits) :
            LET step == visits[k].step
                path == visits[k].path
            IN  /\ (IsLeaf(step)
                      /\ resolveHandler(registry, handlerIdOf(step)) # Absent)
                   => MissingIssueAt(path)
                /\ \A b \in 1..Len(step.branches) :
                      resolveHandler(registry, step.branches[b].handler) # Absent
                      => MissingIssueAt(path \o ".branches." \o ToString(b - 1)
                                             \o ".when.handler")
                /\ (step.type \in {"dowhile", "dountil"}
                      /\ resolveHandler(registry, step.condition) # Absent)
                   => MissingIssueAt(path \o ".condition.handler")
                /\ (step.type = "workflow"
                      /\ ~InBucket(registry, "workflows", step.name))
                   => MissingIssueAt(path \o ".workflowId")

\* a network step whose network the registry lacks is validated without an issue
C9_Witness ==
    /\ pc = "validated" /\ call = "validateWithRegistry"
    /\ spec.steps = <<TargetLeaf("network", "missing")>>
    /\ resolveHandler(registry, handlerIdOf(spec.steps[1]))
          = "Missing network handler: network.missing"
    /\ issues = <<>>

----------------------------------------------------------------------------
(* C10 as stated: for the inline and the structured form alike, resolution  *)
(* fails with a message naming the root and the attempted path whenever the *)
(* walk along the path meets a value that is not a mapping before the path  *)
(* is used up, or a key that the value it is looked up in does not hold;    *)
(* and a value that is returned is never undefined.  Arrays are read as     *)
(* mappings from their indices and "length".                                *)

SourceOf(root, context) ==
    CASE root = "input" -> context.inputData
      [] root = "steps" -> context.steps
      [] root = "init" -> context.initData
      [] root = "requestContext" -> context.requestContext

\* the keys a value holds
KeysOf(value) ==
    {value.f[i].k : i \in 1..Len(value.f)}
        \cup (IF value.t = "array" THEN {"length"} ELSE {})

HeldAt(value, key) ==
    IF value.t = "array" /\ key = "length" THEN Num(ToString(Len(value.f)))
    ELSE value.f[CHOOSE i \in 1..Len(value.f) : value.f[i].k = key].v

\* the path leaves the data: a non-mapping met early, or a key not held
RECURSIVE PathIsMissing(_, _)
PathIsMissing(value, parts) ==
    IF parts = <<>> THEN FALSE
    ELSE IF value.t \notin {"object", "array"} THEN TRUE
    ELSE IF Head(parts) \notin KeysOf(value) THEN TRUE
    ELSE PathIsMissing(HeldAt(value, Head(parts)), Tail(parts))

RECURSIVE HoldsUndefined(_)
HoldsUndefined(value) ==
    \/ value.t = "undefined"
    \/ \E i \in 1..Len(value.f) : HoldsUndefined(value.f[i].v)

C10_MissingPathAlwaysFails ==
    pc = "resolved" =>
        /\ \A form \in Forms, root \in Roots \ {"bogus"}, parts \in PathSet :
              (tmplValue = Render(form, root, parts)
                 /\ PathIsMissing(SourceOf(root, tmplContext), parts))
              => /\ tmplResult.threw
                 /\ tmplResult.error = "Template resolution failed for "
                                          \o Dotted(<<root>> \o parts)
        /\ ~tmplResult.threw => ~HoldsUndefined(tmplResult.value)

\* a key the step output does not hold resolves to an inherited function
C10_Witness ==
    /\ pc = "resolved"
    /\ tmplValue = Str("${steps.a.constructor}")
    /\ tmplContext.steps = StepResults
    /\ tmplResult = Returned(Str("function Object() { [native code] }"))

----------------------------------------------------------------------------
(* C11 as stated: where root.path is present with value v, {$path:          *)
(* 'root.path'} and {$jsonPath: '$.root.path'} resolve to v itself and the  *)
(* string `${root.path}` resolves to String(v); and a sequence or mapping   *)
(* that is resolved entry by entry comes back with the same length, the     *)
(* same keys and the same order.                                            *)

\* the value held at the end of a path that is present
RECURSIVE ValueAt(_, _)
ValueAt(value, parts) ==
    IF parts = <<>> THEN value
    ELSE ValueAt(HeldAt(value, Head(parts)), Tail(parts))

KeyList(value) == [i \in 1..Len(value.f) |-> value.f[i].k]

\* the nodes of a template value that are resolved entry by entry, with the
\* node of the result at the same place
RECURSIVE SameShape(_, _)
SameShape(template, result) ==
    IF template.t \notin {"array", "object"} THEN TRUE
    ELSE IF template.t = "object" /\ isPathExpression(template) THEN TRUE
    ELSE /\ result.t = template.t
         /\ KeyList(result) = KeyList(template)
         /\ \A i \in 1..Len(template.f) :
               SameShape(template.f[i].v, result.f[i].v)

C11_RoundTripAndShape ==
    pc = "resolved" =>
        /\ \A root \in Roots \ {"bogus"}, parts \in PathSet :
              (~PathIsMissing(SourceOf(root, tmplContext), parts)
                 /\ ValueAt(SourceOf(root, tmplContext), parts).t # "undefined")
              => LET v == ValueAt(SourceOf(root, tmplContext), parts) IN
                 /\ tmplValue \in {Render("$path", root, parts),
                                   Render("$jsonPath$.", root, parts)}
                       => tmplResult = Returned(v)
                 /\ tmplValue = Render("inline", root, parts)
                       => tmplResult = Returned(Str(StringOf(v)))
        /\ ~tmplResult.threw => SameShape(tmplValue, tmplResult.value)

\* a mapping with an own key "__proto__" comes back without that key
C11_Witness ==
    /\ pc = "resolved"
    /\ tmplValue = Obj(<<Field("__proto__", Obj(<<Field("admin", Str("yes"))>>)),
                         Field("k", Str("${steps.a.value}"))>>)
    /\ tmplContext.steps = StepResults
    /\ tmplResult = Returned(Obj(<<Field("k", Str("x"))>>))

----------------------------------------------------------------------------
(* C12 *)

\* the params argument carries a string prompt
CarriesPrompt(params) ==
    /\ params.t = "object"
    /\ \E i \in 1..Len(params.f) :
          params.f[i].k = "prompt" /\ params.f[i].v.t = "string"

OwnOr(params, key, default) ==
    IF \E i \in 1..Len(params.f) : params.f[i].k = key
    THEN LET v == HeldAt(params, key) IN
         IF v.t \in {"undefined", "null"} THEN default ELSE v
    ELSE default

IsNonNullObject(params) == params.t \in {"object", "array"}

\* what the wrappers must do when `given` is what they look at
WrappersCheck(given) ==
    /\ unit.kind = "agent" =>
          IF ~CarriesPrompt(given)
          THEN /\ effects = <<>>
               /\ outcome = Thrown("Agent handler requires prompt for "
                                      \o Dotted(unit.id))
          ELSE /\ Len(effects) = 1
               /\ effects[1].op = "agent.generate"
               /\ effects[1].target = unit.id[2]
               /\ effects[1].args = <<HeldAt(given, "prompt"),
                                      OwnOr(given, "options", EmptyObject)>>
               /\ outcome = effects[1].reply
    /\ unit.kind = "tool" =>
          IF ~IsNonNullObject(given)
          THEN /\ effects = <<>>
               /\ outcome = Thrown("Tool handler requires input object for "
                                      \o Dotted(unit.id))
          ELSE /\ Len(effects) = 1
               /\ effects[1].op = "tool.execute"
               /\ effects[1].args[1] = given
               /\ outcome = effects[1].reply

(* C12 as stated: the agent wrapper fails without calling the agent         *)
(* whenever the params it is handed carry no string prompt, else calls the  *)
(* agent once with the prompt and the options (an empty map when absent)    *)
(* and returns the agent's response; the tool wrapper fails without calling *)
(* the tool whenever the params it is handed are not a non-null object.     *)

C12_WrappersCheckParams ==
    (pc = "returned" /\ unit.kind \in {"agent", "tool"})
    => WrappersCheck(invocation.params)

(* C12 as amended: the same, for the parameters the wrapper takes: the      *)
(* params it is handed or, when these are undefined or null, the input data *)
(* of the invocation.                                                       *)

C12_WrappersCheckParamsOrInput ==
    (pc = "returned" /\ unit.kind \in {"agent", "tool"})
    => WrappersCheck(IF invocation.params.t \in {"undefined", "null"}
                     THEN invocation.inputData ELSE invocation.params)

\* no params are handed over and the input data carries the prompt
C12_Witness ==
    /\ pc = "returned"
    /\ unit.kind = "agent"
    /\ invocation.params = Undefined
    /\ invocation.inputData = Obj(<<Field("prompt", Str("from input"))>>)
    /\ Len(effects) = 1
    /\ effects[1].args = <<Str("from input"), EmptyObject>>
    /\ outcome = Returned(Obj(<<Field("text", Str("ok"))>>))

----------------------------------------------------------------------------
(* C13: an invocation of a compiled leaf step resolves the declared params  *)
(* (an empty map when none are declared) against the context of that        *)
(* invocation; when resolution fails no handler is invoked and the failure  *)
(* is the outcome; otherwise the resolved handler is invoked exactly once,  *)
(* with exactly the resolved params, before anything it calls in turn, and  *)
(* its result is the outcome.                                               *)

HandlerCalls == SelectSeq(effects, LAMBDA e : e.op = "handler")

C13_ResolveThenInvokeOnce ==
    (pc = "returned" /\ unit.kind = "leaf") =>
        LET declared == IF unit.params.t = "undefined" THEN EmptyObject
                        ELSE unit.params
            resolved == resolveTemplates(declared, contextOf(invocation))
        IN  IF resolved.threw
            THEN effects = <<>> /\ outcome = resolved
            ELSE /\ Len(HandlerCalls) = 1
                 /\ effects[1].op = "handler"
                 /\ effects[1].target = Dotted(unit.id)
                 /\ effects[1].args = <<resolved.value>>
                 /\ outcome = effects[1].reply

\* a path into the output of an earlier step reaches the handler as its value
C13_Witness ==
    /\ pc = "returned" /\ unit.kind = "leaf"
    /\ unit.id = <<"handlers", "act">>
    /\ unit.params = Obj(<<Field("v", Obj(<<Field("$path", Str("steps.a.value"))>>)),
                           Field("n", Num("1"))>>)
    /\ effects = <<Effect("handler", "handlers.act",
                          <<Obj(<<Field("v", Str("x")), Field("n", Num("1"))>>)>>,
                          Returned(Obj(<<Field("text", Str("ok"))>>)))>>
    /\ outcome = Returned(Obj(<<Field("text", Str("ok"))>>))

----------------------------------------------------------------------------
(* C14: a bail step whose condition resolves to true requests termination  *)
(* with the resolved payload; one whose condition resolves to false, or     *)
(* that declares no condition, requests nothing and returns                 *)
(* {bailed: false, payload: null}.                                          *)

\* what the declared condition says, resolved by itself against the input
ConditionOf(bailWhen, inputData) ==
    IF bailWhen.t = "undefined" THEN "absent"
    ELSE LET resolved == resolveTemplateString(bailWhen.s, bailContext(inputData))
         IN  IF resolved.threw THEN "fails"
             ELSE IF resolved.value = Str("true") THEN "true"
             ELSE IF resolved.value = Str("false") THEN "false"
             ELSE "other"

C14_BailsOnlyWhenConditionTrue ==
    (pc = "returned" /\ unit.kind = "bail") =>
        LET condition == ConditionOf(unit.meta, invocation.inputData)
            payload == resolveTemplates(unit.params,
                                        bailContext(invocation.inputData))
        IN  /\ (condition = "true" /\ ~payload.threw) =>
                   /\ Len(effects) = 1
                   /\ effects[1].op = "bail"
                   /\ effects[1].args = <<payload.value>>
            /\ condition \in {"false", "absent"} =>
                   /\ effects = <<>>
                   /\ outcome = Returned(NotBailed)

\* the condition resolves to false and termination is requested all the same
C14_Witness ==
    /\ pc = "returned" /\ unit.kind = "bail"
    /\ unit.meta = Str("${input.done}")
    /\ PropertyOf(invocation.inputData, "done") = Bool("false")
    /\ unit.params = Obj(<<Field("reason", Str("stopped"))>>)
    /\ Len(effects) = 1
    /\ effects[1].op = "bail"
    /\ effects[1].args = <<Obj(<<Field("reason", Str("stopped"))>>)>>

----------------------------------------------------------------------------
(* C15: invoked without resume data, a suspend or humanInput unit asks the  *)
(* runtime to pause exactly once, attaching an identifier made during the   *)
(* invocation and the metadata the step declares; a resume unit never asks  *)
(* for a pause and returns {resumed: true, data} straight away.            *)

Pauses == SelectSeq(effects, LAMBDA e : e.op = "suspend")

FirstInvocation == pc = "returned" /\ invocation.resumeData = Undefined

\* the metadata passed to suspend() carries the declared value of each key
Attaches(metadata, keys) ==
    \A key \in keys : PropertyOf(metadata, key) = PropertyOf(unit.meta, key)

PausesOnceWith(idKey, keys) ==
    /\ Len(Pauses) = 1
    /\ Len(effects) = 1
    /\ LET metadata == Pauses[1].args[1]
       IN  /\ PropertyOf(metadata, idKey).t = "string"
           /\ PropertyOf(metadata, idKey).s \in Uuids
           /\ Attaches(metadata, keys)

\* the statement as written: resume units included
C15_AllThreePauseOnce ==
    (FirstInvocation /\ unit.kind \in {"suspend", "humanInput", "resume"}) =>
        Len(Pauses) = 1

C15_SuspendAndHumanInputPauseOnce ==
    /\ (FirstInvocation /\ unit.kind = "suspend") =>
           PausesOnceWith("suspendId",
                          {"prompt", "waitFor", "timeout", "resumeSchema"})
    /\ (FirstInvocation /\ unit.kind = "humanInput") =>
           PausesOnceWith("requestId",
                          {"prompt", "inputType", "options", "timeout"})
    /\ (pc = "returned" /\ unit.kind = "resume") =>
           /\ effects = <<>>
           /\ ~outcome.threw
           /\ PropertyOf(outcome.value, "resumed") = Bool("true")

C15_Witness ==
    /\ FirstInvocation /\ unit.kind = "suspend"
    /\ PropertyOf(unit.meta, "prompt") = Str("Approve?")
    /\ Len(effects) = 1
    /\ effects[1].op = "suspend"
    /\ PropertyOf(effects[1].args[1], "suspendId") = Str("uuid-2")
    /\ PropertyOf(effects[1].args[1], "prompt") = Str("Approve?")
    /\ PropertyOf(effects[1].args[1], "resumeSchema")
           = Obj(<<Field("type", Str("object"))>>)
    /\ outcome = Returned(Obj(<<Field("resumed", Bool("false")),
                                Field("suspendId", Str("uuid-2"))>>))

----------------------------------------------------------------------------
(* C16: a suspend or humanInput unit invoked with resume data, whatever     *)
(* its value (false, 0 and the empty string included), returns that data    *)
(* and asks for no pause.                                                   *)

C16_ResumeDataIsReturned ==
    (/\ pc = "returned"
     /\ unit.kind \in {"suspend", "humanInput"}
     /\ invocation.resumeData # Undefined) =>
        /\ effects = <<>>
        /\ ~outcome.threw
        /\ PropertyOf(outcome.value,
                      IF unit.kind = "suspend" THEN "data" ELSE "answer")
               = invocation.resumeData

\* resumed with false, the unit asks for a pause once more
C16_Witness ==
    /\ pc = "returned" /\ unit.kind = "humanInput"
    /\ invocation.resumeData = Bool("false")
    /\ Len(effects) = 1
    /\ effects[1].op = "suspend"
    /\ ~outcome.threw
    /\ PropertyOf(outcome.value, "answer") = Undefined

----------------------------------------------------------------------------
(* C17: two compile calls on the same spec and registry, however their      *)
(* steps interleave, end the same way: both return or both throw the same   *)
(* error, having made the same number of runtime calls of the same kinds    *)
(* in the same order, and return the same warnings.                         *)

Shape(primitives) == [i \in 1..Len(primitives) |-> primitives[i].op]

Ended(at) == at \in {"done", "failed"}

----------------------------------------------------------------------------
(* C18: when a spec passes validation and the compiler reaches a step       *)
(* whose type is no variant of StepNode, compileWorkflow throws an error    *)
(* that names that type, commits no graph, and has built nothing that       *)
(* comes after the step.                                                    *)

\* the variants of StepNode
KnownStepTypes ==
    LeafTypes \cup {"suspend", "resume", "sleep", "sleepUntil", "humanInput",
                    "bail", "map", "foreach", "branch", "parallel", "dowhile",
                    "dountil", "workflow"}

IsUnknown(step) == step.type \notin KnownStepTypes

\* the first member of `members` of unknown type, when every member before
\* it builds; Absent when there is none
FirstUnknownMember(members, Builds(_)) ==
    LET reached == {m \in 1..Len(members) :
                      /\ IsUnknown(members[m])
                      /\ \A n \in 1..(m - 1) : Builds(members[n])}
    IN  IF reached = {} THEN Absent
        ELSE members[CHOOSE m \in reached : TRUE].type

LeafBuilds(step) == buildStep(step, registry).error = Absent

StepBuilds(step) == applySteps(spec.id, <<step>>, registry).error = Absent

\* the unknown type the compiler comes to first inside `step`, or Absent
UnknownWithin(step) ==
    IF IsUnknown(step) THEN step.type
    ELSE IF step.type \in {"foreach", "dowhile", "dountil", "parallel"}
    THEN FirstUnknownMember(step.steps, LeafBuilds)
    ELSE IF step.type = "branch"
    THEN LET reached ==
                 {b \in 1..Len(step.branches) :
                    /\ \A a \in 1..b :
                          resolveHandler(registry, step.branches[a].handler) = Absent
                    /\ \A a \in 1..(b - 1) :
                          \A j \in 1..Len(step.branches[a].steps) :
                             StepBuilds(step.branches[a].steps[j])
                    /\ FirstUnknownMember(step.branches[b].steps, StepBuilds)
                          # Absent}
         IN  IF reached = {} THEN Absent
             ELSE FirstUnknownMember(
                      step.branches[CHOOSE b \in reached : \A a \in reached : b <= a].steps,
                      StepBuilds)
    ELSE Absent

\* the top-level positions at which the compiler comes to an unknown type
ReachedUnknown ==
    {k \in 1..Len(spec.steps) :
       /\ UnknownWithin(spec.steps[k]) # Absent
       /\ \A j \in 1..(k - 1) : StepBuilds(spec.steps[j])}

Committed == \E i \in 1..Len(calls) : calls[i] = Prim("commit", spec.id)

C18_UnknownTypeAborts ==
    (/\ call = "compile"
     /\ pc \in {"built", "done", "failed"}
     /\ ~HasErrors(issues)) =>
        \A k \in ReachedUnknown :
           LET type == UnknownWithin(spec.steps[k]) IN
           /\ pc = "failed"
           /\ thrown \in {"Unsupported step type: " \o type,
                          "Unknown step type: " \o type}
           /\ ~Committed
           /\ calls = <<Prim("createWorkflow", spec.id)>>
                      \o applySteps(spec.id, SubSeq(spec.steps, 1, k),
                                    registry).calls

\* a leaf is built, then a step of type "custom" stops the compile, and the
\* leaf after it is never built
C18_Witness ==
    /\ call = "compile" /\ pc = "failed"
    /\ issues = <<>>
    /\ Len(spec.steps) = 2
    /\ spec.steps[1].type = "parallel"
    /\ spec.steps[2].type = "step"
    /\ thrown = "Unknown step type: custom"
    /\ calls = <<Prim("createWorkflow", "wf"), Prim("createStep", "p")>>

----------------------------------------------------------------------------
(* C19: the issues compileWorkflow works from are those of the shape pass,  *)
(* then those of the unique-id pass, then those of the handler pass, each   *)
(* pass run over the whole spec whatever the others found; the handler      *)
(* pass reports for each step what it reports for that step alone; and the  *)
(* message of a validation failure is the header followed by one            *)
(* `path: message` line for every error, in order.                          *)

\* s.split("\n")
LinesOf(s) ==
    LET newlines == {i \in 1..Len(s) : Char(s, i) = "\n"}
        nth(k) == CHOOSE i \in newlines :
                     Cardinality({j \in newlines : j < i}) = k - 1
        count == Cardinality(newlines)
    IN  [k \in 1..(count + 1) |->
            SubSeq(s, IF k = 1 THEN 1 ELSE nth(k - 1) + 1,
                      IF k = count + 1 THEN Len(s) ELSE nth(k) - 1)]

ShapeIssues == validateSequence(spec.steps, spec.id, ModeOf(spec), spec.inputSchema)

IdIssues == validateUniqueStepIds(spec.steps, spec.id \o ".steps")

HandlerIssues == validateHandlers(spec.steps, spec.id \o ".steps", registry)

\* what the handler pass reports for step k when it is the only step
HandlerIssuesOfStep(k) ==
    validateHandlers(<<spec.steps[k]>>, spec.id \o ".steps", registry)

\* the number of issues the handler pass reports for the first n steps, each alone
RECURSIVE HandlerIssueCount(_)
HandlerIssueCount(n) ==
    IF n = 0 THEN 0 ELSE Len(HandlerIssuesOfStep(n)) + HandlerIssueCount(n - 1)

C19_AllIssuesCollectedAndReported ==
    (call = "compile" /\ pc # "idle") =>
        /\ issues = ShapeIssues \o IdIssues \o HandlerIssues
        /\ Len(HandlerIssues) = HandlerIssueCount(Len(spec.steps))
        /\ HasErrors(issues) => pc \in {"checked", "failed"}
        /\ (pc = "failed" /\ HasErrors(issues)) =>
              LET errors == IssuesWith(issues, "error") IN
              LinesOf(thrown)
                  = <<"Schema validation failed:">>
                    \o [i \in 1..Len(errors) |->
                           errors[i].path \o ": " \o errors[i].message]

\* one error of each pass, three lines after the header
C19_Witness ==
    /\ call = "compile" /\ pc = "failed"
    /\ Len(IssuesWith(ShapeIssues, "error")) = 1
    /\ Len(IdIssues) = 1
    /\ Len(HandlerIssues) = 1
    /\ Len(issues) = 3
    /\ Len(LinesOf(thrown)) = 4
    /\ LinesOf(thrown)[4] = "wf.steps.1.action: Missing handler: missing."

----------------------------------------------------------------------------
(* C20: a compile call that returns had no error among its issues, ends     *)
(* with the commit of the root graph, and returns as warnings the very      *)
(* issues the validator returned, all of them and in its order; and a       *)
(* compile call whose issues hold no error fails only when building the     *)
(* graph fails, with the error of the build, in warn and in strict mode.    *)

C20_WarningsReturnedWithGraph ==
    call = "compile" =>
        /\ pc = "done" =>
              /\ ~HasErrors(issues)
              /\ thrown = Absent
              /\ calls[Len(calls)] = Prim("commit", spec.id)
              /\ warnings = issues
        /\ (pc = "failed" /\ ~HasErrors(issues)) =>
              /\ thrown # Absent
              /\ thrown = applySteps(spec.id, spec.steps, registry).error

\* in strict mode, a graph returned with two warnings
C20_Witness ==
    /\ call = "compile" /\ pc = "done"
    /\ ModeOf(spec) = "strict"
    /\ Len(issues) = 2
    /\ issues[1] # issues[2]
    /\ \A i \in 1..2 : issues[i].severity = "warning"
    /\ warnings = issues
    /\ Committed

----------------------------------------------------------------------------
(* C21: a foreach step that compiles makes one call of the runtime's        *)
(* foreach primitive, whose concurrency option is the declared concurrency, *)
(* or 1 when none is declared; the body is built once and the compiler      *)
(* makes no other call for the step.                                        *)

CallsOf(op) == SelectSeq(calls, LAMBDA c : c.op = op)

DeclaredConcurrency(step) ==
    IF step.concurrency = <<>> THEN 1 ELSE step.concurrency[1]

C21_ForeachForwardsConcurrency ==
    (/\ call = "compile" /\ pc \in {"built", "done"}
     /\ Len(spec.steps) = 1
     /\ spec.steps[1].type = "foreach") =>
        /\ Len(CallsOf("foreach")) = 1
        /\ CallsOf("foreach")[1].opts
              = <<[concurrency |-> DeclaredConcurrency(spec.steps[1])]>>
        /\ Len(CallsOf("createStep")) = 1
        /\ Shape(SubSeq(calls, 1, 3)) = <<"createWorkflow", "createStep", "foreach">>
        /\ Len(calls) \in {3, 4}

C21_Witness ==
    /\ call = "compile" /\ pc = "done"
    /\ spec.steps = <<ForeachStepOf(TargetLeaf("agent", "present"), 8)>>
    /\ calls = <<Prim("createWorkflow", "wf"), Prim("createStep", "s0"),
                 PrimWith("foreach", "wf", [concurrency |-> 8]),
                 Prim("commit", "wf")>>

----------------------------------------------------------------------------
(* C22: a document with an empty required sequence (no top-level step, a    *)
(* branch without arms, a branch arm without steps, a parallel without      *)
(* members) is rejected by the parse and never gets to the validator or     *)
(* the compiler.                                                            *)

RECURSIVE HasEmptySequence(_, _)
\* some sequence of `kinds` inside steps is empty
HasEmptySequence(steps, kinds) ==
    \E k \in 1..Len(steps) :
       LET step == steps[k] IN
       \/ "parallel" \in kinds /\ step.type = "parallel" /\ step.steps = <<>>
       \/ "branch" \in kinds /\ step.type = "branch" /\ step.branches = <<>>
       \/ "arm" \in kinds /\ step.type = "branch"
             /\ \E b \in 1..Len(step.branches) : step.branches[b].steps = <<>>
       \/ HasEmptySequence(step.steps, kinds)
       \/ \E b \in 1..Len(step.branches) :
             HasEmptySequence(step.branches[b].steps, kinds)

PastParse == pc \notin {"raw", "rejected"}

C22_EmptySequencesRejected ==
    PastParse =>
        /\ spec.steps # <<>>
        /\ ~HasEmptySequence(spec.steps, {"parallel", "branch", "arm"})

\* a branch whose only arm has no steps is parsed, validated and compiled
C22_Witness ==
    /\ call = "compile" /\ pc = "done"
    /\ spec.steps = <<BranchStep(<<Arm(<<"handlers", "present">>, <<>>)>>)>>
    /\ issues = <<>>
    /\ calls = <<Prim("createWorkflow", "wf"),
                 Prim("createWorkflow", "wf.branch.0"),
                 Prim("commit", "wf.branch.0"),
                 Prim("branch", "wf"), Prim("commit", "wf")>>

----------------------------------------------------------------------------
(* C23: for an adjacent pair of leaves whose declared types are             *)
(* incompatible, the type mismatch is the only issue reported for the       *)
(* pair, at its path or below it, in warn and in strict mode: nothing is    *)
(* said about nullability, enums, constraints, required keys or items.      *)

IssuesUnder(path) == SelectSeq(issues, LAMBDA i : StartsWith(i.path, path))

C23_TypeMismatchShortCircuits ==
    Validated =>
        \A i \in 2..Len(spec.steps) :
           (AdjacentLeaves(i)
              /\ TypesIncompatible(spec.steps[i - 1].outputSchema,
                                   spec.steps[i].inputSchema))
           => IssuesUnder(TopPath(i))
                 = <<Issue(TopPath(i), SeverityOfMode,
                           MsgTypeMismatch(spec.steps[i - 1].outputSchema.ty,
                                           spec.steps[i].inputSchema.ty))>>

\* a string producer before a nullable object consumer with a required key
C23_Witness ==
    /\ pc = "validated"
    /\ spec.schemaCompatibility = "strict"
    /\ AdjacentLeaves(2)
    /\ spec.steps[1].outputSchema = StringSchema
    /\ spec.steps[2].inputSchema
          = Schema(TArr(<<"object", "null">>), FALSE, NoEnum, {}, <<"value">>,
                   NoProps, NoSchema)
    /\ Len(IssuesUnder(TopPath(2))) = 1
    /\ IssuesUnder(TopPath(2))[1].severity = "error"

----------------------------------------------------------------------------
(* C24: along the top-level sequence the shape carried to a step is the     *)
(* workflow input at the first step, the declared output after a leaf, an   *)
(* array of the body's output after a foreach, a plain object after a map   *)
(* or workflow, nothing after a branch or parallel, and what it was before  *)
(* a sleep.  Each leaf, each parallel member and the first step of each     *)
(* branch arm is checked against the shape carried to its position, an arm  *)
(* being walked from that same shape; a sleep is checked against nothing.   *)

\* the issues of the pair checked at `path`, those of its array items included
PairIssues(path) ==
    SelectSeq(issues, LAMBDA i : i.path = path \/ StartsWith(i.path, path \o ".items"))

\* what checking `consumer` against `carried` at `path` reports
CheckedAgainst(carried, consumer, path) ==
    validateSchemaCompatibility(carried, consumer, path, ModeOf(spec))

ParallelPath(i, m) ==
    spec.id \o ".parallel." \o ToString(i - 1) \o "." \o ToString(m - 1)

ArmPath(i, b) ==
    spec.id \o ".branch." \o ToString(i - 1) \o ".branches." \o ToString(b - 1)

C24_CarriedShapeTransitions ==
    Validated =>
        \A i \in 1..Len(spec.steps) :
           LET step == spec.steps[i] IN
           /\ IsLeaf(step) =>
                 PairIssues(TopPath(i))
                    = CheckedAgainst(CarriedTo(i), step.inputSchema, TopPath(i))
           /\ step.type \in {"sleep", "sleepUntil"} =>
                 PairIssues(TopPath(i)) = <<>>
           /\ step.type = "parallel" =>
                 \A m \in 1..Len(step.steps) :
                    PairIssues(ParallelPath(i, m))
                       = CheckedAgainst(CarriedTo(i), step.steps[m].inputSchema,
                                        ParallelPath(i, m))
           /\ step.type = "branch" =>
                 \A b \in 1..Len(step.branches) :
                    LET first == step.branches[b].steps[1] IN
                    /\ PairIssues(ArmPath(i, b))
                          = CheckedAgainst(CarriedTo(i), first.inputSchema,
                                           ArmPath(i, b))
                    /\ IsLeaf(first) =>
                          PairIssues(ArmPath(i, b) \o ".steps.steps.0")
                             = CheckedAgainst(CarriedTo(i), first.inputSchema,
                                              ArmPath(i, b) \o ".steps.steps.0")

\* a foreach over object-producing bodies hands an array to the next leaf,
\* which takes an object: the leaf is reported against the array
C24_Witness ==
    /\ pc = "validated"
    /\ Len(spec.steps) = 2
    /\ spec.steps[1].type = "foreach"
    /\ spec.steps[1].steps[1].outputSchema = ObjectSchema
    /\ IsLeaf(spec.steps[2])
    /\ spec.steps[2].inputSchema = ObjectSchema
    /\ CarriedTo(2) = ArrayOf(ObjectSchema)
    /\ Len(PairIssues(TopPath(2))) = 1
    /\ StartsWith(PairIssues(TopPath(2))[1].message, "Schema type mismatch.")

----------------------------------------------------------------------------
(* C25 as stated: every leaf variant whose handler the registry holds       *)
(* compiles to a unit of the graph and is never refused as an unsupported   *)
(* step type, at the top level, in a branch arm, as a parallel member and   *)
(* as the body of a foreach, dowhile or dountil, of a specification that   *)
(* validation lets through.                                                 *)

PresentCond == <<"handlers", "present">>

\* the places a leaf can stand in
PlacementsOf(leaf) ==
    {leaf, ForeachStep(leaf), ParallelStep(<<leaf>>),
     BranchStep(<<Arm(PresentCond, <<leaf>>)>>),
     DoWhileStep(leaf, PresentCond), DoUntilStep(leaf, PresentCond)}

CompileEnded == call = "compile" /\ pc \in {"built", "done", "failed"}

C25_EveryLeafVariantCompiles ==
    (CompileEnded /\ ~HasErrors(issues)) =>
        \A type \in LeafTypes :
           LET leaf == TargetLeaf(type, "present") IN
           \A tree \in PlacementsOf(leaf) :
              spec.steps = <<tree>> =>
                 /\ pc # "failed"
                 /\ thrown = Absent
                 /\ \E i \in 1..Len(calls) :
                       calls[i] = Prim("createStep", unitIdOf(leaf))

\* an mcp step at the top level, its tool held by the registry, is refused
C25_Witness ==
    /\ CompileEnded
    /\ spec.steps = <<TargetLeaf("mcp", "present")>>
    /\ resolveHandler(registry, handlerIdOf(spec.steps[1])) = Absent
    /\ ~HasErrors(issues)
    /\ pc = "failed"
    /\ thrown = "Unsupported step type: mcp"

----------------------------------------------------------------------------
(* C26 as stated: when validation with the registry reports no error, graph *)
(* construction fails with no missing or malformed handler, agent, tool,    *)
(* MCP, network or workflow error; and for every identifier the compiler    *)
(* resolves, handlerExists holds exactly when resolveHandler succeeds.      *)

\* the identifiers the compiler hands to resolveHandler for a step
RECURSIVE ResolvedIds(_)
ResolvedIds(step) ==
    (IF IsLeaf(step) THEN {handlerIdOf(step)} ELSE {})
    \cup (IF step.type \in {"dowhile", "dountil"} THEN {step.condition} ELSE {})
    \cup {step.branches[b].handler : b \in 1..Len(step.branches)}
    \cup UNION {ResolvedIds(step.steps[k]) : k \in 1..Len(step.steps)}
    \cup UNION {UNION {ResolvedIds(step.branches[b].steps[k]) :
                          k \in 1..Len(step.branches[b].steps)} :
                   b \in 1..Len(step.branches)}

ResolutionError ==
    \/ StartsWith(thrown, "Missing ")
    \/ StartsWith(thrown, "Invalid MCP handler ID format")

C26_ValidationAgreesWithResolution ==
    CompileEnded =>
        /\ ~HasErrors(issues) => ~ResolutionError
        /\ \A i \in 1..Len(spec.steps) :
              \A id \in ResolvedIds(spec.steps[i]) :
                 handlerExists(registry, id) <=> resolveHandler(registry, id) = Absent

\* a network step whose network the registry lacks passes validation and
\* stops graph construction
C26_Witness ==
    /\ CompileEnded
    /\ spec.steps = <<TargetLeaf("network", "missing")>>
    /\ ~HasErrors(issues)
    /\ pc = "failed"
    /\ thrown = "Missing network handler: network.missing"

----------------------------------------------------------------------------
(* C27 as stated: when a paused suspend or humanInput step is resumed, the  *)
(* correlation identifier in the result of the resumed invocation is the    *)
(* identifier that went out with the pause request, and the resumed         *)
(* invocation that does not pause again has generated no identifier.        *)

\* suspendId for a suspend step, requestId for a humanInput step
CorrelationKey == IF unit.kind = "suspend" THEN "suspendId" ELSE "requestId"

PausedWith == PropertyOf(effects[1].args[1], CorrelationKey)

ResumedWith == PropertyOf(second.ran.outcome.value, CorrelationKey)

Resumed == pc = "resumed" /\ ~second.ran.outcome.threw

C27_ResumeCarriesPauseId ==
    Resumed => ResumedWith = PausedWith

\* a suspend step paused with uuid-1 and, resumed with an approval, returns
\* uuid-2
C27_Witness ==
    /\ Resumed
    /\ unit.kind = "suspend"
    /\ PausedWith = Str("uuid-1")
    /\ second.resumeData = Obj(<<Field("approved", Bool("true"))>>)
    /\ second.ran.effects = <<>>
    /\ PropertyOf(second.ran.outcome.value, "resumed") = Bool("true")
    /\ ResumedWith = Str("uuid-2")

----------------------------------------------------------------------------
(* C29 as stated: for the same execution context, the params of a branch,   *)
(* dowhile or dountil condition resolve `steps.<id>` to the value the       *)
(* params of a leaf step resolve it to, also when the stored result of the  *)
(* step carries an `output` field: the condition handler receives what a    *)
(* leaf's handler would receive for the same declared params.               *)

\* what a leaf step's execute function makes of the same declared params
ResolvedAsLeaf == resolveTemplates(unit.params, contextOf(invocation))

ConditionEvaluated ==
    pc = "returned" /\ unit.kind = "condition" /\ unit.params # Undefined

C29_StepsDenoteTheSameInConditions ==
    ConditionEvaluated =>
        IF ResolvedAsLeaf.threw THEN outcome = ResolvedAsLeaf
        ELSE /\ effects # <<>>
             /\ effects[1].args = <<ResolvedAsLeaf.value>>

\* the result stored for step a carries an output field: a leaf's params take
\* steps.a to be the output, the condition's params take it to be the result
C29_Witness ==
    /\ ConditionEvaluated
    /\ unit.params = Obj(<<Field("last", Obj(<<Field("$path", Str("steps.a"))>>))>>)
    /\ "output" \in OwnKeys(getStepResult(invocation.stepResults, "a"))
    /\ ResolvedAsLeaf
          = Returned(Obj(<<Field("last", Obj(<<Field("value", Str("x"))>>))>>))
    /\ effects[1].args
          = <<Obj(<<Field("last", getStepResult(invocation.stepResults, "a"))>>)>>

----------------------------------------------------------------------------
(* C28 as stated: a rule violation between the shape carried to a branch    *)
(* and the first step of one of its arms is reported once: the check at the *)
(* arm's entry and the walk of the arm's own sequence never both report it. *)

\* the reports of the walk of arm b of the branch at i about the arm's first step
ArmWalkIssues(i, b) == PairIssues(ArmPath(i, b) \o ".steps.steps.0")

SameViolation(one, other) ==
    one.message = other.message /\ one.severity = other.severity

C28_ArmEntryReportedOnce ==
    Validated =>
        \A i \in 1..Len(spec.steps) :
           spec.steps[i].type = "branch" =>
              \A b \in 1..Len(spec.steps[i].branches) :
                 \A k \in 1..Len(PairIssues(ArmPath(i, b))) :
                    \A n \in 1..Len(ArmWalkIssues(i, b)) :
                       ~SameViolation(PairIssues(ArmPath(i, b))[k],
                                      ArmWalkIssues(i, b)[n])

\* a string handed to a branch whose arm starts with a step taking an object
\* is reported at the arm and again at the arm's first step
C28_Witness ==
    /\ Validated
    /\ spec.steps[1].type = "branch"
    /\ IsLeaf(spec.steps[1].branches[1].steps[1])
    /\ TypesIncompatible(CarriedTo(1), spec.steps[1].branches[1].steps[1].inputSchema)
    /\ Len(PairIssues(ArmPath(1, 1))) = 1
    /\ Len(ArmWalkIssues(1, 1)) = 1
    /\ SameViolation(PairIssues(ArmPath(1, 1))[1], ArmWalkIssues(1, 1)[1])
    /\ StartsWith(ArmWalkIssues(1, 1)[1].message, "Schema type mismatch.")
    /\ PairIssues(ArmPath(1, 1))[1].path = "wf.branch.0.branches.0"
    /\ ArmWalkIssues(1, 1)[1].path = "wf.branch.0.branches.0.steps.steps.0"

----------------------------------------------------------------------------
(* C30 as stated: in a graph compiled from a specification that passed      *)
(* validation, the ids of the steps and sub-graphs the compiler creates are *)
(* pairwise distinct and none of them depends on the time of the compile    *)
(* call.                                                                    *)

\* the calls that create a step, a workflow or a clone, in order
Creations ==
    SelectSeq(calls, LAMBDA c : c.op \in {"createStep", "createWorkflow",
                                          "cloneWorkflow"})

\* the id ends in a reading of the clock
ClockDependent(id) ==
    /\ Len(id) >= Len("<Date.now()>")
    /\ SubSeq(id, Len(id) - Len("<Date.now()>") + 1, Len(id)) = "<Date.now()>"

Compiled == call = "compile" /\ pc = "done"

C30_CreatedIdsDistinctAndTimeless ==
    Compiled =>
        /\ \A i, j \in 1..Len(Creations) :
              i # j => Creations[i].id # Creations[j].id
        /\ \A i \in 1..Len(Creations) : ~ClockDependent(Creations[i].id)

\* two branch steps in one sequence, their arms holding steps c and d: both
\* arms become a sub-graph named wf.branch.0
C30_Witness ==
    /\ Compiled
    /\ Len(spec.steps) = 2
    /\ spec.steps[1].type = "branch" /\ spec.steps[2].type = "branch"
    /\ spec.steps[1].branches[1].steps[1].id = "c"
    /\ spec.steps[2].branches[1].steps[1].id = "d"
    /\ issues = <<>>
    /\ Len(SelectSeq(Creations, LAMBDA c : c = Prim("createWorkflow", "wf.branch.0"))) = 2
    /\ \A i \in 1..Len(Creations) : ~ClockDependent(Creations[i].id)

====
